---- MODULE Spec2Model ----
(***************************************************************************)
(* janux-persistence: the generic data access object.                      *)
(*                                                                         *)
(* The model follows AbstractDataAccessObject (insert, insertMany, update, *)
(* saveOrUpdate, findOne, remove, removeById, deleteAll, deleteAllByIds)   *)
(* in its two versions: the current one (persistence/impl, CrudRepository  *)
(* based) and the older one (updateOrInsert / findOneById).  The concrete  *)
(* dao is StateProvinceDao.                                                *)
(*                                                                         *)
(* Nothing in the dao keeps a caller from starting a call while earlier    *)
(* ones are pending: calls overlap.  call[k] is the k-th call; a step of   *)
(* the model is one turn of a call's promise chain, that is the adapter's  *)
(* operation the call waits for followed by the callback up to the next    *)
(* adapter operation.  call[k].trace records the methods the call invoked. *)
(*                                                                         *)
(* RoleService (insert, update, remove) over the role, permission-bit,     *)
(* role-permission-bit and account-role daos, and PermissionBitValidator,  *)
(* follow the dao; each has its own specification (SpecRole,               *)
(* SpecValidator).  SpecInsert is the dao under a caller that only         *)
(* inserts, one call after the other.                                      *)
(***************************************************************************)
EXTENDS Integers, Sequences, FiniteSets, Bags, TLC

(***************************************************************************)
(* Bounds of the model.                                                    *)
(***************************************************************************)
MaxCalls == 2        \* calls started in one behaviour
MaxList == 2         \* longest list handed to insertMany or deleteAllByIds
MaxInputId == 1      \* ids id1..idN a caller may name
MaxRoleCalls == 3    \* RoleService calls started in one behaviour
MaxPending == 2      \* RoleService calls in flight at the same time
MaxAccountRoles == 1 \* account-role records

(***************************************************************************)
(* Values.  An attribute's value is a tuple: null, undefined, a string     *)
(* <<s>> (Blank is a string of spaces) or a generated id <<"id", n>>.      *)
(***************************************************************************)
Null == <<"null">>
Undef == <<"undefined">>
Blank == <<"  ">>
Id(n) == <<"id", n>>
NoStamp == <<>>
Stamp(t) == <<t>>

Countries == {<<"MX">>, <<"US">>}
Codes == {Blank, <<"A">>}
InputIds == {Null, Undef, Blank} \cup {Id(n) : n \in 1..MaxInputId}

\* value == null, value != null and _.isNil(value)
isNil(v) == v \in {Null, Undef}

\* util/blank-string-validator: null, undefined and blank strings are blank.
isBlankString(v) == isNil(v) \/ v = Blank

\* util/id_validator of the older dao.
isValidId(v) == ~isBlankString(v)

(***************************************************************************)
(* Entities.  Every object carries the same attributes; an absent          *)
(* attribute is Null (NoStamp for the two dates).                          *)
(***************************************************************************)
Entity(id, country, code) ==
    [id |-> id, countryIsoCode |-> country, code |-> code,
     dateCreated |-> NoStamp, lastUpdate |-> NoStamp, uuid |-> Null]

InputObjects == {Entity(i, c, k) : i \in InputIds, c \in Countries, k \in Codes}

\* the objects of the lists handed to insertMany: two valid ones without an
\* id, one with a blank code, one that has an id
ListObjects ==
    {Entity(Null, <<"MX">>, <<"A">>), Entity(Null, <<"US">>, <<"A">>),
     Entity(Null, <<"MX">>, Blank), Entity(Id(1), <<"MX">>, <<"A">>)}
InputLists == UNION {[1..n -> ListObjects] : n \in 0..MaxList}

\* persistence/impl/validation-error: new ValidationError(attribute, message, value)
ValidationError(attribute, message, value) ==
    [attribute |-> attribute, message |-> message, value |-> value]

(***************************************************************************)
(* The dao's construction: which version of the base class, the entity     *)
(* properties handed to the constructor (NoProps is null) and whether the  *)
(* extended class overrides the two convert methods.                       *)
(***************************************************************************)
NoProps == [defined |-> FALSE, timeStamp |-> "undefined",
            autoGenerated |-> "undefined", uuid |-> "undefined"]

EntityPropertiesImpl(autoGenerated, timeStamp) ==
    [defined |-> TRUE, timeStamp |-> timeStamp,
     autoGenerated |-> autoGenerated, uuid |-> "undefined"]

\* older version: IEntityProperties carries timeStamp and uuid
EntityProperties(timeStamp, uuid) ==
    [defined |-> TRUE, timeStamp |-> timeStamp,
     autoGenerated |-> "undefined", uuid |-> uuid]

Daos ==
    {[legacy |-> FALSE, entityProperties |-> ep, converts |-> cv] :
        ep \in {NoProps} \cup
               {EntityPropertiesImpl(ag, ts) :
                    ag \in {"true", "false", "null", "undefined"},
                    ts \in {"true", "false"}},
        cv \in BOOLEAN}
    \cup
    {[legacy |-> TRUE, entityProperties |-> ep, converts |-> cv] :
        ep \in {NoProps} \cup
               {EntityProperties(ts, uu) :
                    ts \in {"true", "false"}, uu \in {"true", "false"}},
        cv \in BOOLEAN}


VARIABLES
    dao,        \* the dao as constructed
    store,      \* the collection: the stored records, in insertion order
    nextId,     \* the next id the database or the uuid generator hands out
    calls,      \* calls started so far; also the clock of the time stamps
    call        \* call[k]: the k-th call of a dao method

\* RoleService over Persistence.roleDao, permissionBitDao, rolePermissionBitDao
\* and accountRoleDao
VARIABLES
    roleDao,                \* the role collection
    permissionBitDao,       \* the permission-bit collection
    authContextDao,         \* the auth-context collection
    rolePermissionBitDao,   \* the role-permission-bit collection
    accountRoleDao,         \* the account-role collection
    nextRoleId,             \* the next id the database gives a role
    nextAccountRoleId,      \* the next id the database gives an account-role
    serviceCalls,           \* RoleService calls started so far
    service                 \* service[k]: the k-th call of RoleService

roleVars == <<roleDao, permissionBitDao, authContextDao, rolePermissionBitDao, accountRoleDao,
              nextRoleId, nextAccountRoleId, serviceCalls, service>>

\* PermissionBitValidator
VARIABLES
    validatorInput,         \* the permission bit handed to validatePermissionBit
    validatorErrors         \* the list it returned

validatorVars == <<validatorInput, validatorErrors>>

\* what a dao call leaves alone
serviceVars == <<roleVars, validatorVars>>

daoVars == <<dao, store, nextId, calls, call>>

vars == <<dao, store, nextId, calls, call, roleVars, validatorVars>>

(***************************************************************************)
(* Settled promises.  A rejection carries a message (the id precondition)  *)
(* or a list of validation errors; a resolution carries the objects the    *)
(* dao returns (no object: findOne resolved with null).                    *)
(***************************************************************************)
Pending == [kind |-> "pending", message |-> "", errors |-> <<>>, value |-> <<>>]
RejectMessage(m) == [kind |-> "rejected", message |-> m, errors |-> <<>>, value |-> <<>>]
RejectErrors(e) == [kind |-> "rejected", message |-> "", errors |-> e, value |-> <<>>]
Resolve(v) == [kind |-> "resolved", message |-> "", errors |-> <<>>, value |-> v]

(***************************************************************************)
(* A call of a dao method.  op is the method the caller called, via the    *)
(* method saveOrUpdate dispatched to, pc where the promise chain stands.   *)
(* The other fields are what the call has seen and done so far.            *)
(***************************************************************************)
Idle ==
    [op |-> "idle", via |-> "none", pc |-> "idle",
     args |-> <<>>,         \* the objects as the caller handed them in
     objs |-> <<>>,         \* the caller's objects, as the dao has modified them
     handed |-> <<>>,       \* what the dao handed to the adapter
     trace |-> <<>>,        \* the methods the call invoked, in order
     outcome |-> Pending,   \* how the call's promise settled
     read |-> <<>>,         \* the collection as the call's query found it
     store0 |-> <<>>,       \* the collection before the adapter's write
     store1 |-> <<>>,       \* the collection after the adapter's write
     changed |-> FALSE]     \* has a step of the call changed the collection?

Call(op, via, args) == [Idle EXCEPT !.op = op, !.via = via, !.args = args]

InFlight(c) == c.pc \notin {"idle", "done"}

HAS_ID == "Object has a defined id"
NO_ID_INSERT == "Object does not have an id and the dao has the attribute entityProperties.autoGenerated as false or undefined"
NO_ID_UPDATE == "Object does not have an id"

(***************************************************************************)
(* Id generation and time stamps.                                          *)
(***************************************************************************)
\* UuidGenerator.assignUUIDToIdAttribute: does the dao generate the id?
generatesId(ep) == ep.defined /\ ep.autoGenerated = "true"

assignUUIDToIdAttribute(ep, o, fresh) ==
    IF generatesId(ep) THEN [o EXCEPT !.id = fresh] ELSE o

\* UuidGenerator.assignUuid of the older dao: the uuid attribute
generatesUuid(ep) == ep.defined /\ ep.uuid = "true"

assignUuid(ep, o, fresh) ==
    IF generatesUuid(ep) THEN [o EXCEPT !.uuid = fresh] ELSE o

stamps(ep) == ep.defined /\ ep.timeStamp = "true"

generateTimeStampForInsert(ep, o, now) ==
    IF stamps(ep) THEN [o EXCEPT !.dateCreated = Stamp(now)] ELSE o

generateTimeStampForUpdate(ep, o, now) ==
    IF stamps(ep) THEN [o EXCEPT !.lastUpdate = Stamp(now)] ELSE o

\* does the version of the dao hand out a fresh value before insertMethod?
consumesFresh(d) ==
    IF d.legacy THEN generatesUuid(d.entityProperties)
                ELSE generatesId(d.entityProperties)

(***************************************************************************)
(* Conversions.  The base class returns the object itself; an extended     *)
(* class that overrides them builds a new object from the entity's own     *)
(* attributes, which loses the id, the uuid and the two dates.             *)
(***************************************************************************)
Stripped(o) == Entity(Null, o.countryIsoCode, o.code)

convertBeforeSave(d, o) == IF d.converts THEN Stripped(o) ELSE o

convertAfterDbOperation(d, o) == IF d.converts THEN Stripped(o) ELSE o

\* addExtraValues that does not put the id back
addExtraValues_withoutId(d, obj, reference) ==
    LET b == IF d.legacy /\ ~isNil(reference.uuid)
                THEN [obj EXCEPT !.uuid = reference.uuid] ELSE obj
        c == IF reference.dateCreated # NoStamp
                THEN [b EXCEPT !.dateCreated = reference.dateCreated] ELSE b
    IN  IF reference.lastUpdate # NoStamp
           THEN [c EXCEPT !.lastUpdate = reference.lastUpdate] ELSE c

addExtraValues(d, obj, reference) ==
    LET a == IF ~isNil(reference.id) THEN [obj EXCEPT !.id = reference.id] ELSE obj
        b == IF d.legacy /\ ~isNil(reference.uuid)
                THEN [a EXCEPT !.uuid = reference.uuid] ELSE a
        c == IF reference.dateCreated # NoStamp
                THEN [b EXCEPT !.dateCreated = reference.dateCreated] ELSE b
    IN  IF reference.lastUpdate # NoStamp
           THEN [c EXCEPT !.lastUpdate = reference.lastUpdate] ELSE c

(***************************************************************************)
(* StateProvinceDao: the two validations the base class calls.             *)
(***************************************************************************)
\* StateProvinceValidator.validateStateProvince: one error per blank attribute
validateStateProvince(o) ==
    (IF isBlankString(o.countryIsoCode)
        THEN <<ValidationError("countryIsoCode", "Country code is empty", o.countryIsoCode)>>
        ELSE <<>>)
    \o
    (IF isBlankString(o.code)
        THEN <<ValidationError("code", "Code is empty", o.code)>>
        ELSE <<>>)

validateEntity(o) == validateStateProvince(o)

AttributeFilter(attributeName, value) == [attributeName |-> attributeName, value |-> value]

\* the adapter's query: every filter's attribute $eq its value, joined by $and
findAllByAttributesAndOperatorMethod(coll, attributes) ==
    SelectSeq(coll, LAMBDA r :
        \A i \in 1..Len(attributes) : r[attributes[i].attributeName] = attributes[i].value)

\* the dao's public query (findByAttributesAndOperator in the current dao):
\* every record the adapter found goes through convertAfterDbOperation and
\* addExtraValues
findAllByAttributesAndOperator(coll, attributes) ==
    LET resultQuery == findAllByAttributesAndOperatorMethod(coll, attributes)
    IN  [i \in 1..Len(resultQuery) |->
            addExtraValues(dao, convertAfterDbOperation(dao, resultQuery[i]), resultQuery[i])]

\* the filter of StateProvinceDao.validateBeforeInsert
insertFilter(o) ==
    <<AttributeFilter("countryIsoCode", o.countryIsoCode), AttributeFilter("code", o.code)>>

\* a filter on the code alone
validateBeforeInsert_codeOnly(coll, o) ==
    LET filter == <<AttributeFilter("code", o.code)>>
        result == findAllByAttributesAndOperator(coll, filter)
    IN  IF Len(result) > 0
           THEN <<ValidationError("code",
                    "There is another state province with the same code and the same country",
                    o.code)>>
           ELSE <<>>

validateBeforeInsert(coll, o) ==
    LET filter == insertFilter(o)
        result == findAllByAttributesAndOperator(coll, filter)
    IN  IF Len(result) > 0
           THEN <<ValidationError("code",
                    "There is another state province with the same code and the same country",
                    o.code)>>
           ELSE <<>>

\* the engine implementation's query: same pair, another _id
validateBeforeUpdate(coll, o) ==
    LET result == SelectSeq(coll, LAMBDA r :
                      /\ r.id # o.id
                      /\ r.countryIsoCode = o.countryIsoCode
                      /\ r.code = o.code)
    IN  IF Len(result) > 0
           THEN <<ValidationError("code",
                    "There is another state province with the same code and the same country",
                    o.code)>>
           ELSE <<>>

(***************************************************************************)
(* The engine adapter.                                                     *)
(***************************************************************************)
\* the record the engine stores: it assigns an id to a document without one
Stored(o, fresh) == IF isNil(o.id) THEN [o EXCEPT !.id = fresh] ELSE o

\* the record an update leaves: the document's attributes replace the record's
Updated(r, o) ==
    [o EXCEPT !.dateCreated = IF o.dateCreated = NoStamp THEN r.dateCreated
                                                          ELSE o.dateCreated,
              !.uuid = IF isNil(o.uuid) THEN r.uuid ELSE o.uuid]

\* the collection after update(o): every record with o's id is replaced
updateMethod(coll, o) ==
    [i \in 1..Len(coll) |-> IF coll[i].id = o.id THEN Updated(coll[i], o) ELSE coll[i]]

\* what update(o) resolves with: the updated record (the document, if none matched)
updateResult(coll, o) ==
    LET hit == SelectSeq(coll, LAMBDA r : r.id = o.id)
    IN  IF Len(hit) > 0 THEN Updated(hit[1], o) ELSE o

\* findOneById: the records with the id (the first one is the answer)
findOneMethod(coll, id) == SelectSeq(coll, LAMBDA r : r.id = id)

\* how many of os[1..n] get their id from the engine
Fresh(os, n) == Cardinality({i \in 1..n : isNil(os[i].id)})

\* insertMany: the records stored for the documents os
insertManyMethod(os, next) ==
    [i \in 1..Len(os) |-> Stored(os[i], Id(next + Fresh(os, i - 1)))]

\* remove(objectToDelete): the collection without the records of that id
remove(coll, objectToDelete) == SelectSeq(coll, LAMBDA r : r.id # objectToDelete.id)

\* removeById(id)
removeById(coll, id) == SelectSeq(coll, LAMBDA r : r.id # id)

\* deleteAll()
deleteAll(coll) == <<>>

\* deleteAllByIds(ids): the collection without the records whose id is in ids
deleteAllByIds(coll, ids) ==
    SelectSeq(coll, LAMBDA r : \A i \in 1..Len(ids) : ids[i] # r.id)

(***************************************************************************)
(* Calls.  A caller may start a call at any time; the k-th call is call[k].*)
(***************************************************************************)
CanStart == calls < MaxCalls

\* the caller takes the settled promise of a call and drops it
Settled ==
    \E k \in 1..MaxCalls :
        /\ call[k].pc = "done"
        /\ call' = [call EXCEPT ![k] = Idle]
        /\ UNCHANGED <<dao, store, nextId, calls>>
        /\ UNCHANGED serviceVars

\* what every call does as it starts; c is the call after its first turn
Started(c) ==
    /\ calls' = calls + 1
    /\ call' = [call EXCEPT ![calls + 1] = c]
    /\ UNCHANGED <<dao, store>>
    /\ UNCHANGED serviceVars

\* the call after a query of the dao resolved with resultQuery: each record
\* of the result went through convertAfterDbOperation
queried(c, coll, resultQuery) ==
    [c EXCEPT !.read = coll,
              !.trace = @ \o [i \in 1..Len(resultQuery) |-> "convertAfterDbOperation"]]

\* the call after the adapter carried out its write
written(c, before, after) ==
    [c EXCEPT !.store0 = before, !.store1 = after, !.changed = @ \/ before # after]

(***************************************************************************)
(* insert                                                                  *)
(***************************************************************************)
\* the id precondition without its second test
insertPrecondition_definedIdOnly(d, o) ==
    IF d.legacy
       THEN IF ~isNil(o.id) THEN HAS_ID ELSE ""
       ELSE IF d.entityProperties.defined
               /\ d.entityProperties.autoGenerated = "true"
               /\ ~isNil(o.id)
            THEN HAS_ID
            ELSE ""

\* the id precondition of insert: the rejection message, "" when it passes
insertPrecondition(d, o) ==
    IF d.legacy
       THEN IF ~isNil(o.id) THEN HAS_ID ELSE ""
       ELSE IF d.entityProperties.defined
               /\ d.entityProperties.autoGenerated = "true"
               /\ ~isNil(o.id)
            THEN HAS_ID
            ELSE IF (~d.entityProperties.defined
                     \/ d.entityProperties.autoGenerated \in {"null", "undefined"}
                     \/ d.entityProperties.autoGenerated = "false")
                    /\ isNil(o.id)
                 THEN NO_ID_INSERT
                 ELSE ""

\* insert up to the call of validateBeforeInsert; tr: what the caller did first
insert(c, o, tr) ==
    IF insertPrecondition(dao, o) # ""
       THEN [c EXCEPT !.outcome = RejectMessage(insertPrecondition(dao, o)),
                      !.trace = tr,
                      !.pc = "done",
                      !.objs = <<o>>]
       ELSE IF Len(validateEntity(o)) = 0
               THEN [c EXCEPT !.trace = tr \o <<"validateEntity", "validateBeforeInsert">>,
                              !.pc = "validateBeforeInsert",
                              !.objs = <<o>>]
               ELSE [c EXCEPT !.outcome = RejectErrors(validateEntity(o)),
                              !.trace = tr \o <<"validateEntity">>,
                              !.pc = "done",
                              !.objs = <<o>>]

Insert ==
    \E o \in InputObjects :
        /\ CanStart
        /\ Started(insert(Call("insert", "insert", <<o>>), o, <<>>))
        /\ UNCHANGED nextId

\* the object of an insert once the callback has stamped it
insertStamped(o) ==
    IF dao.legacy
       THEN assignUuid(dao.entityProperties,
                generateTimeStampForInsert(dao.entityProperties, o, calls),
                Id(nextId))
       ELSE generateTimeStampForInsert(dao.entityProperties,
                assignUUIDToIdAttribute(dao.entityProperties, o, Id(nextId)),
                calls)

\* a callback that calls insertMethod first and stamps the object afterwards
insertValidated_stampsAfterCall(c, validations) ==
    IF Len(validations) = 0
       THEN LET o == c.objs[1]
                stamped == insertStamped(o)
            IN  [c EXCEPT !.objs = <<stamped>>,
                          !.handed = <<addExtraValues(dao, convertBeforeSave(dao, o), o)>>,
                          !.trace = @ \o <<"convertBeforeSave", "insertMethod">> \o
                              (IF dao.legacy
                                  THEN <<"generateTimeStampForInsert", "assignUuid">>
                                  ELSE <<"assignUUIDToIdAttribute",
                                         "generateTimeStampForInsert">>),
                          !.pc = "insertMethod"]
       ELSE [c EXCEPT !.outcome = RejectErrors(validations), !.pc = "done"]

\* a callback that does not look at the validations
insertValidated_ignoresErrors(c, validations) ==
    LET o == c.objs[1]
        stamped == insertStamped(o)
    IN  [c EXCEPT !.objs = <<stamped>>,
                  !.handed = <<addExtraValues(dao, convertBeforeSave(dao, stamped), stamped)>>,
                  !.trace = @ \o
                      (IF dao.legacy
                          THEN <<"generateTimeStampForInsert", "assignUuid">>
                          ELSE <<"assignUUIDToIdAttribute", "generateTimeStampForInsert">>)
                      \o <<"convertBeforeSave", "insertMethod">>,
                  !.pc = "insertMethod"]

\* validateBeforeInsert resolved: its callback stamps the object and calls insertMethod
insertValidated(c, validations) ==
    IF Len(validations) = 0
       THEN LET o == c.objs[1]
                stamped == insertStamped(o)
            IN  [c EXCEPT !.objs = <<stamped>>,
                          !.handed = <<addExtraValues(dao, convertBeforeSave(dao, stamped),
                                                      stamped)>>,
                          !.trace = @ \o
                              (IF dao.legacy
                                  THEN <<"generateTimeStampForInsert", "assignUuid">>
                                  ELSE <<"assignUUIDToIdAttribute",
                                         "generateTimeStampForInsert">>)
                              \o <<"convertBeforeSave", "insertMethod">>,
                          !.pc = "insertMethod"]
       ELSE [c EXCEPT !.outcome = RejectErrors(validations), !.pc = "done"]

\* the query of validateBeforeInsert resolves and the chain goes on
InsertValidated ==
    \E k \in 1..MaxCalls :
        /\ call[k].pc = "validateBeforeInsert"
        /\ LET o == call[k].objs[1]
               result == findAllByAttributesAndOperator(store, insertFilter(o))
               c == insertValidated(queried(call[k], store, result),
                                    validateBeforeInsert(store, o))
           IN  /\ call' = [call EXCEPT ![k] = c]
               /\ nextId' = IF c.pc = "insertMethod" /\ consumesFresh(dao)
                               THEN nextId + 1 ELSE nextId
        /\ UNCHANGED <<dao, store, calls>>
        /\ UNCHANGED serviceVars

\* insertMethod resolved with the stored record: its callback converts it
insertPersisted(c, resultInsert) ==
    [c EXCEPT !.outcome = Resolve(<<addExtraValues(dao,
                              convertAfterDbOperation(dao, resultInsert), resultInsert)>>),
              !.trace = @ \o <<"convertAfterDbOperation">>,
              !.pc = "done"]

InsertPersisted ==
    \E k \in 1..MaxCalls :
        /\ call[k].pc = "insertMethod"
        /\ LET resultInsert == Stored(call[k].handed[1], Id(nextId))
               after == Append(store, resultInsert)
           IN  /\ store' = after
               /\ call' = [call EXCEPT ![k] =
                              insertPersisted(written(call[k], store, after), resultInsert)]
        /\ nextId' = IF isNil(call[k].handed[1].id) THEN nextId + 1 ELSE nextId
        /\ UNCHANGED <<dao, calls>>
        /\ UNCHANGED serviceVars

(***************************************************************************)
(* update                                                                  *)
(***************************************************************************)
\* the id precondition of update that tests for null only
updatePrecondition_nullOnly(d, o) ==
    IF isNil(o.id) THEN NO_ID_UPDATE ELSE ""

\* the id precondition of update: the rejection message, "" when it passes
updatePrecondition(d, o) ==
    IF d.legacy
       THEN IF ~isValidId(o.id) THEN NO_ID_UPDATE ELSE ""
       ELSE IF isBlankString(o.id) THEN NO_ID_UPDATE ELSE ""

\* update that goes on to validateBeforeUpdate whatever validateEntity returned
update_skipsEntityErrors(c, o, tr) ==
    IF updatePrecondition(dao, o) # ""
       THEN [c EXCEPT !.outcome = RejectMessage(updatePrecondition(dao, o)),
                      !.trace = tr,
                      !.pc = "done",
                      !.objs = <<o>>]
       ELSE [c EXCEPT !.trace = tr \o <<"validateEntity", "validateBeforeUpdate">>,
                      !.pc = "validateBeforeUpdate",
                      !.objs = <<o>>]

\* update up to the call of validateBeforeUpdate; tr: what the caller did first
update(c, o, tr) ==
    IF updatePrecondition(dao, o) # ""
       THEN [c EXCEPT !.outcome = RejectMessage(updatePrecondition(dao, o)),
                      !.trace = tr,
                      !.pc = "done",
                      !.objs = <<o>>]
       ELSE IF Len(validateEntity(o)) = 0
               THEN [c EXCEPT !.trace = tr \o <<"validateEntity", "validateBeforeUpdate">>,
                              !.pc = "validateBeforeUpdate",
                              !.objs = <<o>>]
               ELSE [c EXCEPT !.outcome = RejectErrors(validateEntity(o)),
                              !.trace = tr \o <<"validateEntity">>,
                              !.pc = "done",
                              !.objs = <<o>>]

Update ==
    \E o \in InputObjects :
        /\ CanStart
        /\ Started(update(Call("update", "update", <<o>>), o, <<>>))
        /\ UNCHANGED nextId

\* a callback that does not call generateTimeStampForUpdate
updateValidated_withoutTimeStamp(c, validations) ==
    IF Len(validations) = 0
       THEN [c EXCEPT !.handed = <<addExtraValues(dao, convertBeforeSave(dao, c.objs[1]),
                                                  c.objs[1])>>,
                      !.trace = @ \o <<"convertBeforeSave", "updateMethod">>,
                      !.pc = "updateMethod"]
       ELSE [c EXCEPT !.outcome = RejectErrors(validations), !.pc = "done"]

\* validateBeforeUpdate resolved: its callback stamps the object and calls updateMethod
updateValidated(c, validations) ==
    IF Len(validations) = 0
       THEN LET stamped == generateTimeStampForUpdate(dao.entityProperties, c.objs[1], calls)
            IN  [c EXCEPT !.objs = <<stamped>>,
                          !.handed = <<addExtraValues(dao, convertBeforeSave(dao, stamped),
                                                      stamped)>>,
                          !.trace = @ \o <<"generateTimeStampForUpdate",
                                           "convertBeforeSave", "updateMethod">>,
                          !.pc = "updateMethod"]
       ELSE [c EXCEPT !.outcome = RejectErrors(validations), !.pc = "done"]

\* the query of validateBeforeUpdate resolves and the chain goes on
UpdateValidated ==
    \E k \in 1..MaxCalls :
        /\ call[k].pc = "validateBeforeUpdate"
        /\ call' = [call EXCEPT ![k] =
                       updateValidated([call[k] EXCEPT !.read = store],
                                       validateBeforeUpdate(store, call[k].objs[1]))]
        /\ UNCHANGED <<dao, store, nextId, calls>>
        /\ UNCHANGED serviceVars

\* updateMethod resolved with the updated record: its callback converts it
updatePersisted(c, resultInsert) ==
    [c EXCEPT !.outcome = Resolve(<<addExtraValues(dao,
                              convertAfterDbOperation(dao, resultInsert), resultInsert)>>),
              !.trace = @ \o <<"convertAfterDbOperation">>,
              !.pc = "done"]

UpdatePersisted ==
    \E k \in 1..MaxCalls :
        /\ call[k].pc = "updateMethod"
        /\ LET after == updateMethod(store, call[k].handed[1])
           IN  /\ store' = after
               /\ call' = [call EXCEPT ![k] =
                              updatePersisted(written(call[k], store, after),
                                              updateResult(store, call[k].handed[1]))]
        /\ UNCHANGED <<dao, nextId, calls>>
        /\ UNCHANGED serviceVars

(***************************************************************************)
(* saveOrUpdate (updateOrInsert in the older dao)                          *)
(***************************************************************************)
\* saveOrUpdate that inserts only when the id is null or undefined
saveOrUpdate_nullOnly(c, o) ==
    IF isNil(o.id)
       THEN insert([c EXCEPT !.via = "insert"], o, <<"insert">>)
       ELSE update([c EXCEPT !.via = "update"], o, <<"update">>)

saveOrUpdate(c, o) ==
    IF isBlankString(o.id)
       THEN insert([c EXCEPT !.via = "insert"], o, <<"insert">>)
       ELSE update([c EXCEPT !.via = "update"], o, <<"update">>)

SaveOrUpdate ==
    \E o \in InputObjects :
        /\ CanStart
        /\ Started(saveOrUpdate(Call("saveOrUpdate", "none", <<o>>), o))
        /\ UNCHANGED nextId

(***************************************************************************)
(* findOne (findOneById in the older dao)                                  *)
(***************************************************************************)
FindOne ==
    \E id \in InputIds :
        /\ CanStart
        /\ Started([Call("findOne", "findOne", <<id>>) EXCEPT
                       !.trace = <<"findOneMethod">>, !.pc = "findOneMethod"])
        /\ UNCHANGED nextId

\* findOne that returns the converted record as it is
findOne_withoutExtraValues(c, resultQuery) ==
    IF Len(resultQuery) = 0
       THEN [c EXCEPT !.outcome = Resolve(<<>>), !.pc = "done"]
       ELSE [c EXCEPT !.outcome = Resolve(<<convertAfterDbOperation(dao, resultQuery[1])>>),
                      !.trace = @ \o <<"convertAfterDbOperation">>,
                      !.pc = "done"]

\* findOneMethod resolved with resultQuery (no record: null)
findOne(c, resultQuery) ==
    IF Len(resultQuery) = 0
       THEN [c EXCEPT !.outcome = Resolve(<<>>), !.pc = "done"]
       ELSE [c EXCEPT !.outcome = Resolve(<<addExtraValues(dao,
                                convertAfterDbOperation(dao, resultQuery[1]), resultQuery[1])>>),
                      !.trace = @ \o <<"convertAfterDbOperation">>,
                      !.pc = "done"]

FindOneResolved ==
    \E k \in 1..MaxCalls :
        /\ call[k].pc = "findOneMethod"
        /\ call' = [call EXCEPT ![k] =
                       findOne([call[k] EXCEPT !.read = store],
                               findOneMethod(store, call[k].args[1]))]
        /\ UNCHANGED <<dao, store, nextId, calls>>
        /\ UNCHANGED serviceVars

(***************************************************************************)
(* insertMany                                                              *)
(***************************************************************************)
\* a first loop that also turns away an object validateBeforeInsert has errors for
anyHasId_orInconsistent(os) ==
    \E i \in 1..Len(os) :
        ~isNil(os[i].id) \/ Len(validateBeforeInsert(store, os[i])) > 0

\* a first loop that looks at the first object only
anyHasId_firstOnly(os) == Len(os) > 0 /\ ~isNil(os[1].id)

\* first loop: does an object of the list have an id?
anyHasId(os) == \E i \in 1..Len(os) : ~isNil(os[i].id)

\* second loop: the objects it reaches before it returns or falls through,
\* that is up to the first object validateEntity has errors for
reached(os) ==
    LET bad == {i \in 1..Len(os) : Len(validateEntity(os[i])) > 0}
    IN  IF bad = {} THEN Len(os) ELSE CHOOSE i \in bad : \A j \in bad : i <= j

\* the objects the second loop has stamped when it ends
passed(os) ==
    LET n == reached(os)
    IN  IF n > 0 /\ Len(validateEntity(os[n])) > 0 THEN n - 1 ELSE n

\* the i-th object once the second loop has passed it
manyStamped(d, o, fresh, now) ==
    IF d.legacy
       THEN assignUuid(d.entityProperties,
                generateTimeStampForInsert(d.entityProperties, o, now), fresh)
       ELSE generateTimeStampForInsert(d.entityProperties,
                assignUUIDToIdAttribute(d.entityProperties, o, fresh), now)

manyTrace(d, os, n) ==
    IF n = 0 THEN <<>>
    ELSE IF Len(validateEntity(os[n])) > 0
            THEN <<"validateEntity">>
            ELSE <<"validateEntity">>
                 \o (IF d.legacy
                        THEN <<"generateTimeStampForInsert", "assignUuid">>
                        ELSE <<"assignUUIDToIdAttribute", "generateTimeStampForInsert">>)
                 \o <<"convertBeforeSave">>

RECURSIVE manyTraces(_, _, _)
manyTraces(d, os, n) ==
    IF n = 0 THEN <<>> ELSE manyTraces(d, os, n - 1) \o manyTrace(d, os, n)

\* the fresh values insertMany(os) takes from the generator
manyFresh(os) ==
    IF anyHasId(os) \/ ~consumesFresh(dao) THEN 0 ELSE passed(os)

\* insertMany up to the call of insertManyMethod
insertMany(c, os) ==
    IF anyHasId(os)
       THEN [c EXCEPT !.outcome = RejectMessage(HAS_ID), !.pc = "done", !.objs = os]
       ELSE LET n == reached(os)
                failed == n > 0 /\ Len(validateEntity(os[n])) > 0
                step == IF consumesFresh(dao) THEN 1 ELSE 0
                after == [i \in 1..Len(os) |->
                            IF i <= passed(os)
                               THEN manyStamped(dao, os[i], Id(nextId + step * (i - 1)),
                                                calls + 1)
                               ELSE os[i]]
            IN  IF failed
                   THEN [c EXCEPT !.objs = after,
                                  !.outcome = RejectErrors(validateEntity(os[n])),
                                  !.trace = manyTraces(dao, os, n),
                                  !.pc = "done"]
                   ELSE [c EXCEPT !.objs = after,
                                  !.trace = manyTraces(dao, os, n) \o <<"insertManyMethod">>,
                                  !.pc = "insertManyMethod",
                                  !.handed = [i \in 1..Len(os) |->
                                      addExtraValues(dao, convertBeforeSave(dao, after[i]),
                                                     after[i])]]

InsertMany ==
    \E os \in InputLists :
        /\ CanStart
        /\ Started(insertMany(Call("insertMany", "insertMany", os), os))
        /\ nextId' = nextId + manyFresh(os)

\* insertManyMethod resolved with the stored records: its callback converts each
insertManyPersisted(c, insertedRecords) ==
    [c EXCEPT !.outcome = Resolve([i \in 1..Len(insertedRecords) |->
                      addExtraValues(dao, convertAfterDbOperation(dao, insertedRecords[i]),
                                     insertedRecords[i])]),
              !.trace = @ \o [i \in 1..Len(insertedRecords) |-> "convertAfterDbOperation"],
              !.pc = "done"]

InsertManyPersisted ==
    \E k \in 1..MaxCalls :
        /\ call[k].pc = "insertManyMethod"
        /\ LET insertedRecords == insertManyMethod(call[k].handed, nextId)
               after == store \o insertedRecords
           IN  /\ store' = after
               /\ call' = [call EXCEPT ![k] =
                              insertManyPersisted(written(call[k], store, after),
                                                  insertedRecords)]
        /\ nextId' = nextId + Fresh(call[k].handed, Len(call[k].handed))
        /\ UNCHANGED <<dao, calls>>
        /\ UNCHANGED serviceVars

(***************************************************************************)
(* remove, removeById, deleteAll (removeAll), deleteAllByIds (removeByIds). *)
(* The dao of an engine hands the call to the adapter as it is: no         *)
(* validation, no conversion.                                              *)
(***************************************************************************)
\* the objects a caller hands to remove: the adapter reads the id only
RemoveObjects == {Entity(i, <<"MX">>, <<"A">>) : i \in InputIds}

\* the lists of ids a caller hands to deleteAllByIds
IdLists == UNION {[1..n -> {Id(m) : m \in 1..MaxInputId}] : n \in 0..MaxList}

Remove ==
    \E o \in RemoveObjects :
        /\ CanStart
        /\ Started([Call("remove", "remove", <<o>>) EXCEPT
                       !.trace = <<"remove">>, !.pc = "remove"])
        /\ UNCHANGED nextId

Removed ==
    \E k \in 1..MaxCalls :
        /\ call[k].pc = "remove"
        /\ LET after == remove(store, call[k].args[1])
           IN  /\ store' = after
               /\ call' = [call EXCEPT ![k] =
                              [written(call[k], store, after) EXCEPT
                                  !.outcome = Resolve(<<>>), !.pc = "done"]]
        /\ UNCHANGED <<dao, nextId, calls>>
        /\ UNCHANGED serviceVars

RemoveById ==
    \E id \in InputIds :
        /\ CanStart
        /\ Started([Call("removeById", "removeById", <<id>>) EXCEPT
                       !.trace = <<"removeById">>, !.pc = "removeById"])
        /\ UNCHANGED nextId

RemovedById ==
    \E k \in 1..MaxCalls :
        /\ call[k].pc = "removeById"
        /\ LET after == removeById(store, call[k].args[1])
           IN  /\ store' = after
               /\ call' = [call EXCEPT ![k] =
                              [written(call[k], store, after) EXCEPT
                                  !.outcome = Resolve(<<>>), !.pc = "done"]]
        /\ UNCHANGED <<dao, nextId, calls>>
        /\ UNCHANGED serviceVars

DeleteAll ==
    /\ CanStart
    /\ Started([Call("deleteAll", "deleteAll", <<>>) EXCEPT
                   !.trace = <<"deleteAll">>, !.pc = "deleteAll"])
    /\ UNCHANGED nextId

DeletedAll ==
    \E k \in 1..MaxCalls :
        /\ call[k].pc = "deleteAll"
        /\ LET after == deleteAll(store)
           IN  /\ store' = after
               /\ call' = [call EXCEPT ![k] =
                              [written(call[k], store, after) EXCEPT
                                  !.outcome = Resolve(<<>>), !.pc = "done"]]
        /\ UNCHANGED <<dao, nextId, calls>>
        /\ UNCHANGED serviceVars

DeleteAllByIds ==
    \E ids \in IdLists :
        /\ CanStart
        /\ Started([Call("deleteAllByIds", "deleteAllByIds", ids) EXCEPT
                       !.trace = <<"deleteAllByIds">>, !.pc = "deleteAllByIds"])
        /\ UNCHANGED nextId

DeletedAllByIds ==
    \E k \in 1..MaxCalls :
        /\ call[k].pc = "deleteAllByIds"
        /\ LET after == deleteAllByIds(store, call[k].args)
           IN  /\ store' = after
               /\ call' = [call EXCEPT ![k] =
                              [written(call[k], store, after) EXCEPT
                                  !.outcome = Resolve(<<>>), !.pc = "done"]]
        /\ UNCHANGED <<dao, nextId, calls>>
        /\ UNCHANGED serviceVars

(***************************************************************************)
(* RoleService: a role and its permission bits.  The service keeps the     *)
(* role in roleDao and one role-permission-bit record per permission bit   *)
(* in rolePermissionBitDao.  Calls of the service overlap like calls of a  *)
(* dao: service[k] is the k-th call, and a step is one database operation  *)
(* of its chain followed by the callback up to the next one.               *)
(***************************************************************************)
RoleId(n) == <<"role", n>>
BitId(n) == <<"bit", n>>
AssociationId(n) == <<"role-permission-bit", n>>
AccountRoleId(n) == <<"account-role", n>>
EmptyString == <<"">>

ROLE_PERMISSION_BIT == "role.permissionBit"
PERMISSION_BIT_NOT_IN_DATABASE == "Some permission bit ids does not exits in the database"
ROLE_PERMISSION_BITS_EMPTY == "permissionBits is not an array or is empty"
PERMISSION_BITS_INVALID == "The parameters does not have a valid permission bits data"
ACCOUNT == "account"
ROLE_ASSOCIATED_WITH_ACCOUNT == "This role is associated with one or more account"

\* object.permissionBits: an array of objects with an id, or a value that is no array
NotArray == [isArray |-> FALSE, items |-> <<>>]
Array(items) == [isArray |-> TRUE, items |-> items]

RoleNames == {Blank, <<"admin">>, <<"user">>}
\* a number; every other value is null, undefined or a string
Number(n) == <<"number", n>>
\* _.isNumber
isNumber(v) == Len(v) = 2 /\ v[1] = "number"

\* the permission bits a caller hands over: objects with a bit's id, stored
\* or not, with a repetition
PermissionBitIds == {BitId(1), BitId(2)}
PermissionBitLists ==
    {<<[id |-> BitId(1)]>>, <<[id |-> BitId(1)], [id |-> BitId(1)]>>,
     <<[id |-> BitId(1)], [id |-> BitId(2)]>>}
\* and what validate turns down: no array, no bit, a bit whose id is a number
InvalidPermissionBits ==
    {NotArray, Array(<<>>), Array(<<[id |-> Number(1)]>>)}
InputPermissionBits == {Array(l) : l \in PermissionBitLists} \cup InvalidPermissionBits
\* the id of the role a caller updates: none, the id of a stored role, or an
\* id of no role (the engine generates ids no caller has named before)
UnknownRoleId == RoleId(0)
InputRoleIds == {Blank, UnknownRoleId} \cup {roleDao[i].id : i \in 1..Len(roleDao)}
\* the parent a caller names: none, or a role stored or not
InputParentRoleIds == {Undef} \cup (InputRoleIds \ {Blank})

RoleObject(id, name, idParentRole, permissionBits) ==
    [id |-> id, name |-> name, idParentRole |-> idParentRole,
     permissionBits |-> permissionBits]
\* the objects a caller hands to insert or update with the id of ids: a
\* role admin with the permission bit 1, and that object with another name,
\* with a parent, or with other permission bits
RoleObjects(ids) ==
    {RoleObject(i, n, Undef, Array(<<[id |-> BitId(1)]>>)) : i \in ids, n \in RoleNames}
    \cup {RoleObject(i, <<"admin">>, p, Array(<<[id |-> BitId(1)]>>)) :
            i \in ids, p \in InputParentRoleIds}
    \cup {RoleObject(i, <<"admin">>, Undef, b) : i \in ids, b \in InputPermissionBits}
InsertObjects == RoleObjects({Undef})
\* update: of a stored role, or an object whose id names none
UpdateObjects ==
    RoleObjects({roleDao[i].id : i \in 1..Len(roleDao)})
    \cup {RoleObject(i, <<"admin">>, Undef, Array(<<[id |-> BitId(1)]>>)) :
            i \in {Blank, UnknownRoleId}}
\* remove(role, force) reads role.id only
RemoveRoles == {RoleObject(i, Undef, Undef, NotArray) : i \in InputRoleIds \ {Blank}}
NoObject == RoleObject(Undef, Undef, Undef, NotArray)

\* new RoleEntity(name, description, enabled, isRoot, idParentRole): the
\* attributes the service and the role dao read
RoleEntity(name, idParentRole) ==
    [id |-> Undef, name |-> name, idParentRole |-> idParentRole, permissionBits |-> <<>>]
NoRole == RoleEntity(Undef, Undef)

\* new AccountRoleEntity(idAccount, idRole)
AccountRoleEntity(idAccount, idRole) ==
    [id |-> Undef, idAccount |-> idAccount, idRole |-> idRole]

\* new RolePermissionBitEntity(idRole, idPermissionBit)
RolePermissionBitEntity(idRole, idPermissionBit) ==
    [id |-> Undef, idRole |-> idRole, idPermissionBit |-> idPermissionBit]

\* new PermissionBitEntity(name, description, position, idAuthContext)
PermissionBitEntity(name, description, position, idAuthContext) ==
    [id |-> Undef, name |-> name, description |-> description,
     position |-> position, idAuthContext |-> idAuthContext]
NoPermissionBit == PermissionBitEntity(Undef, Undef, Undef, Undef)

\* the n-th permission bit of the collection
StoredPermissionBit(n) ==
    [PermissionBitEntity(<<"A name">>, <<"A description">>, Number(n - 1), <<"1000000">>)
        EXCEPT !.id = BitId(n)]

\* a validator that returns at the first invalid attribute
validatePermissionBit_firstErrorOnly(bit) ==
    IF isBlankString(bit.name)
       THEN <<ValidationError("name", "Name is empty", bit.name)>>
       ELSE IF isBlankString(bit.description)
               THEN <<ValidationError("description", "Description is empty", bit.description)>>
               ELSE IF ~isNumber(bit.position)
                       THEN <<ValidationError("position", "Position is not a number",
                                              bit.position)>>
                       ELSE IF isBlankString(bit.idAuthContext)
                               THEN <<ValidationError("idAuthContext",
                                          "idAuthContext is empty", bit.idAuthContext)>>
                               ELSE <<>>

\* PermissionBitValidator.validatePermissionBit: one error per invalid attribute
validatePermissionBit(bit) ==
    (IF isBlankString(bit.name)
        THEN <<ValidationError("name", "Name is empty", bit.name)>>
        ELSE <<>>)
    \o (IF isBlankString(bit.description)
           THEN <<ValidationError("description", "Description is empty", bit.description)>>
           ELSE <<>>)
    \o (IF ~isNumber(bit.position)
           THEN <<ValidationError("position", "Position is not a number", bit.position)>>
           ELSE <<>>)
    \o (IF isBlankString(bit.idAuthContext)
           THEN <<ValidationError("idAuthContext", "idAuthContext is empty",
                                  bit.idAuthContext)>>
           ELSE <<>>)

\* the permission bits handed to the validator
InputPermissionBitEntities ==
    {PermissionBitEntity(n, d, p, a) :
        n \in {Undef, Blank, <<"A name">>},
        d \in {Null, Blank, <<"A description">>},
        p \in {Undef, <<"2">>, Number(0), Number(1)},
        a \in {Undef, Blank, <<"1000000">>}}

\* RoleValidator.validateRole: a role needs a name
validateRole(role) ==
    IF isBlankString(role.name)
       THEN <<ValidationError("name", "Name is empty", role.name)>>
       ELSE <<>>

\* _.isString
isString(v) == ~isNil(v) /\ ~isNumber(v)

\* _.uniq: the first occurrence of every value, in order
RECURSIVE uniq(_)
uniq(s) ==
    IF Len(s) = 0
       THEN <<>>
       ELSE LET front == uniq(SubSeq(s, 1, Len(s) - 1))
                last == s[Len(s)]
            IN  IF \E i \in 1..Len(front) : front[i] = last
                   THEN front
                   ELSE Append(front, last)

\* _.map(object.permissionBits, (o) => o.id)
idsOf(permissionBits) ==
    [i \in 1..Len(permissionBits.items) |-> permissionBits.items[i].id]

\* the auth context the stored permission bits name
AuthContext == [id |-> <<"1000000">>, name |-> <<"An auth context">>]

\* _.find(resultAuthContexts, (o) => o.id === id): undefined when none has it
find(resultAuthContexts, id) ==
    IF \E i \in 1..Len(resultAuthContexts) : resultAuthContexts[i].id = id
       THEN resultAuthContexts[
                CHOOSE i \in 1..Len(resultAuthContexts) :
                    /\ resultAuthContexts[i].id = id
                    /\ \A j \in 1..(i - 1) : resultAuthContexts[j].id # id]
       ELSE Undef

\* populateData's second callback: bit.authContext of every permission bit
withAuthContext(permissionBits, resultAuthContexts) ==
    [i \in 1..Len(permissionBits) |->
        [id |-> permissionBits[i].id,
         name |-> permissionBits[i].name,
         description |-> permissionBits[i].description,
         position |-> permissionBits[i].position,
         idAuthContext |-> permissionBits[i].idAuthContext,
         authContext |-> find(resultAuthContexts, permissionBits[i].idAuthContext)]]

\* findAllByIds: the records whose id is one of ids
findAllByIds(coll, ids) ==
    SelectSeq(coll, LAMBDA r : \E i \in 1..Len(ids) : ids[i] = r.id)

\* RoleService.validate before its query: the rejection, or Pending when
\* it goes on to validatePermissionBitsIds
validate(o) ==
    LET errors == validateRole(RoleEntity(o.name, o.idParentRole))
        permissionBits == o.permissionBits
        ids == idsOf(permissionBits)
        rejected == SelectSeq(ids, LAMBDA v : ~isString(v))
        pushed == IF Len(rejected) > 0
                     THEN Append(errors, ValidationError(ROLE_PERMISSION_BIT,
                                             PERMISSION_BITS_INVALID, EmptyString))
                     ELSE errors
    IN  IF ~permissionBits.isArray \/ Len(permissionBits.items) = 0
           THEN RejectErrors(<<ValidationError(ROLE_PERMISSION_BIT,
                                   ROLE_PERMISSION_BITS_EMPTY, EmptyString)>>)
           ELSE IF Len(pushed) > 0
                   THEN RejectErrors(pushed)
                   ELSE Pending

\* RoleService.validatePermissionBitsIds: every id names a stored permission bit
validatePermissionBitsIds(ids) ==
    IF Len(findAllByIds(permissionBitDao, ids)) # Len(ids)
       THEN RejectErrors(<<ValidationError(ROLE_PERMISSION_BIT,
                               PERMISSION_BIT_NOT_IN_DATABASE, EmptyString)>>)
       ELSE Pending

\* what a validation of the role dao resolves with: the errors, or the call
\* of validateParentRole it returns
Errors(e) == [parent |-> FALSE, errors |-> e]
ParentRole == [parent |-> TRUE, errors |-> <<>>]

\* RoleDao.validateParentRole: a role that names a parent names a stored role
validateParentRole(role) ==
    IF isNil(role.idParentRole)
          \/ \E i \in 1..Len(roleDao) : roleDao[i].id = role.idParentRole
       THEN <<>>
       ELSE <<ValidationError("idParentRole", "The parent role does not exist",
                              role.idParentRole)>>

\* RoleDao.validateBeforeInsert: the name is not taken
roleValidateBeforeInsert(role) ==
    IF \E i \in 1..Len(roleDao) : roleDao[i].name = role.name
       THEN Errors(<<ValidationError("name", "There is another role with the same name",
                                     role.name)>>)
       ELSE ParentRole

\* RoleDaoMongoDbImpl.validateBeforeUpdate: name $eq and _id $ne
roleValidateBeforeUpdate(objectToUpdate) ==
    LET result == SelectSeq(roleDao, LAMBDA r :
                      r.name = objectToUpdate.name /\ r.id # objectToUpdate.id)
    IN  IF Len(result) > 0
           THEN Errors(<<ValidationError("name", "There is another role with the same name",
                                         objectToUpdate.name)>>)
           ELSE ParentRole

\* The role-permission-bit collection is a bag of its records without the
\* id the engine gave them: how many records each (idRole, idPermissionBit)
\* has.  No code of the service reads a stored association's own id.
Association(idRole, idPermissionBit) ==
    [idRole |-> idRole, idPermissionBit |-> idPermissionBit]

\* rolePermissionBitDao.deleteAllByIdRole
deleteAllByIdRole(coll, idRole) ==
    [e \in {x \in BagToSet(coll) : x.idRole # idRole} |-> coll[e]]

\* insertManyMethod of the role-permission-bit collection: the collection
\* with a record more for every entity of os
RECURSIVE storeAssociations(_, _)
storeAssociations(coll, os) ==
    IF Len(os) = 0
       THEN coll
       ELSE storeAssociations(
                coll (+) SetToBag({Association(os[1].idRole, os[1].idPermissionBit)}),
                Tail(os))

\* what insertMany resolves with: the entities, each with the id of its record
storedAssociations(os) == [i \in 1..Len(os) |-> [os[i] EXCEPT !.id = AssociationId(i)]]

\* accountRoleDao.findAllByRoleId
findAllByRoleId(coll, idRole) == SelectSeq(coll, LAMBDA r : r.idRole = idRole)

(***************************************************************************)
(* A call of RoleService.                                                  *)
(***************************************************************************)
ServiceIdle ==
    [op |-> "idle", pc |-> "idle",
     object |-> NoObject,           \* the call's argument
     force |-> FALSE,               \* remove: its second argument
     role |-> NoRole,               \* the role handed to the role dao
     result |-> NoRole,             \* the chain's `result` variable
     insertedBits |-> <<>>,         \* what rolePermissionBitDao.insertMany resolved with
     permissionBits |-> <<>>,       \* populateData's `permissionBits` variable
     accountRoles |-> <<>>,         \* remove: what findAllByRoleId resolved with
     outcome |-> Pending,           \* the promise RoleService returned
     overlapped |-> FALSE,          \* was another call in flight while this one was?
     touched |-> {},                \* the roles whose associations the call changed
     associations0 |-> EmptyBag,    \* the associations when the call started
     associations1 |-> EmptyBag]    \* the associations when its promise settled

ServiceCall(op, object) == [ServiceIdle EXCEPT !.op = op, !.object = object]

ServicesInFlight == {k \in 1..MaxRoleCalls : InFlight(service[k])}

ServiceCanStart ==
    /\ serviceCalls < MaxRoleCalls
    /\ Cardinality(ServicesInFlight) < MaxPending

\* the call's promise settles
settle(c, outcome) ==
    [c EXCEPT !.pc = "done", !.outcome = outcome, !.associations1 = rolePermissionBitDao]

\* what every call does as it starts; c is the call after its first turn.
\* The record of a settled call is kept until the next call starts.
ServiceStarted(c) ==
    /\ serviceCalls' = serviceCalls + 1
    /\ service' =
           [k \in 1..MaxRoleCalls |->
               IF k = serviceCalls + 1
                  THEN [c EXCEPT !.overlapped = InFlight(c) /\ ServicesInFlight # {},
                                 !.associations0 = rolePermissionBitDao]
                  ELSE IF ~InFlight(service[k])
                          THEN ServiceIdle
                          ELSE IF InFlight(c) THEN [service[k] EXCEPT !.overlapped = TRUE]
                                              ELSE service[k]]
    /\ UNCHANGED <<roleDao, permissionBitDao, rolePermissionBitDao, accountRoleDao,
                   nextRoleId, nextAccountRoleId>>
    /\ UNCHANGED <<daoVars, validatorVars, authContextDao>>

\* the call c after a write of its own took the associations from before to after
wrote(c, before, after) ==
    LET differ == {e \in BagToSet(before) \cup BagToSet(after) :
                      CopiesIn(e, before) # CopiesIn(e, after)}
    IN  [c EXCEPT !.touched = @ \cup {e.idRole : e \in differ}]

\* a step of the call service[k] that leaves it as c
ServiceStep(k, c) == service' = [service EXCEPT ![k] = c]

\* permissionBitDao.insert, resolved: one more permission bit
PermissionBitInserted ==
    /\ Len(permissionBitDao) < Cardinality(PermissionBitIds)
    /\ permissionBitDao' =
           Append(permissionBitDao, StoredPermissionBit(Len(permissionBitDao) + 1))
    /\ UNCHANGED <<roleDao, rolePermissionBitDao, accountRoleDao, nextRoleId,
                   nextAccountRoleId, serviceCalls, service>>
    /\ UNCHANGED <<daoVars, validatorVars, authContextDao>>

\* authContextDao.insert, resolved: the auth context of the permission bits
AuthContextInserted ==
    /\ authContextDao = <<>>
    /\ authContextDao' = <<AuthContext>>
    /\ UNCHANGED <<roleDao, permissionBitDao, rolePermissionBitDao, accountRoleDao,
                   nextRoleId, nextAccountRoleId, serviceCalls, service>>
    /\ UNCHANGED <<daoVars, validatorVars>>

\* accountRoleDao.insert, resolved: an account has a stored role
AccountRoleInserted ==
    \E i \in 1..Len(roleDao) :
        /\ nextAccountRoleId <= MaxAccountRoles
        /\ accountRoleDao' =
               Append(accountRoleDao,
                      [AccountRoleEntity(<<"account">>, roleDao[i].id)
                          EXCEPT !.id = AccountRoleId(nextAccountRoleId)])
        /\ nextAccountRoleId' = nextAccountRoleId + 1
        /\ UNCHANGED <<roleDao, permissionBitDao, rolePermissionBitDao, nextRoleId,
                       serviceCalls, service>>
        /\ UNCHANGED <<daoVars, validatorVars, authContextDao>>

\* insert and update run validate up to its first promise
validated(c) ==
    LET v == validate(c.object)
    IN  IF v.kind = "rejected" THEN settle(c, v)
                               ELSE [c EXCEPT !.pc = "validatePermissionBitsIds"]

RoleServiceInsert ==
    \E o \in InsertObjects :
        /\ ServiceCanStart
        /\ ServiceStarted(validated(ServiceCall("insert", o)))

RoleServiceUpdate ==
    \E o \in UpdateObjects :
        /\ ServiceCanStart
        /\ ServiceStarted(validated(ServiceCall("update", o)))

\* remove calls accountRoleDao.findAllByRoleId(role.id)
RoleServiceRemove ==
    \E role \in RemoveRoles, force \in BOOLEAN :
        /\ ServiceCanStart
        /\ ServiceStarted([ServiceCall("remove", role) EXCEPT
                              !.force = force, !.pc = "findAllByRoleId"])

\* insert's first callback: roleDao.insert(role) up to validateBeforeInsert
roleDaoInsert(c) ==
    LET role == RoleEntity(c.object.name, c.object.idParentRole)
        entityErrors == validateRole(role)
    IN  IF ~isNil(role.id)
           THEN settle(c, RejectMessage(HAS_ID))
           ELSE IF Len(entityErrors) > 0
                   THEN settle(c, RejectErrors(entityErrors))
                   ELSE [c EXCEPT !.role = role, !.pc = "roleDao.validateBeforeInsert"]

\* update's first callback: roleDao.update(role) up to validateBeforeUpdate
roleDaoUpdate(c) ==
    LET role == [RoleEntity(c.object.name, c.object.idParentRole) EXCEPT !.id = c.object.id]
        entityErrors == validateRole(role)
    IN  IF ~isValidId(role.id)
           THEN settle(c, RejectMessage(NO_ID_UPDATE))
           ELSE IF Len(entityErrors) > 0
                   THEN settle(c, RejectErrors(entityErrors))
                   ELSE [c EXCEPT !.role = role, !.pc = "roleDao.validateBeforeUpdate"]

\* validate's else branch and the callback of validatePermissionBitsIds;
\* on success the next callback calls roleDao.insert or roleDao.update
PermissionBitsValidated ==
    \E k \in 1..MaxRoleCalls :
        /\ service[k].pc = "validatePermissionBitsIds"
        /\ LET c == service[k]
               idPermissionBits == uniq(idsOf(c.object.permissionBits))
               v == validatePermissionBitsIds(idPermissionBits)
           IN  ServiceStep(k, IF v.kind = "rejected"
                                 THEN settle(c, v)
                                 ELSE IF c.op = "insert" THEN roleDaoInsert(c)
                                                         ELSE roleDaoUpdate(c))
        /\ UNCHANGED <<roleDao, permissionBitDao, rolePermissionBitDao, accountRoleDao,
                       nextRoleId, nextAccountRoleId, serviceCalls>>
        /\ UNCHANGED <<daoVars, validatorVars, authContextDao>>

\* the call after the query of a validation of the role dao resolved with v:
\* a role without a parent goes on to the adapter's write
roleValidated(c, v, write) ==
    IF ~v.parent
       THEN settle(c, RejectErrors(v.errors))
       ELSE IF isNil(c.role.idParentRole)
               THEN [c EXCEPT !.pc = write]
               ELSE [c EXCEPT !.pc = "roleDao.validateParentRole"]

\* the query of roleDao's validateBeforeInsert resolves
RoleValidatedBeforeInsert ==
    \E k \in 1..MaxRoleCalls :
        /\ service[k].pc = "roleDao.validateBeforeInsert"
        /\ ServiceStep(k, roleValidated(service[k], roleValidateBeforeInsert(service[k].role),
                                        "roleDao.insertMethod"))
        /\ UNCHANGED <<roleDao, permissionBitDao, rolePermissionBitDao, accountRoleDao,
                       nextRoleId, nextAccountRoleId, serviceCalls>>
        /\ UNCHANGED <<daoVars, validatorVars, authContextDao>>

\* the query of roleDao's validateBeforeUpdate resolves
RoleValidatedBeforeUpdate ==
    \E k \in 1..MaxRoleCalls :
        /\ service[k].pc = "roleDao.validateBeforeUpdate"
        /\ ServiceStep(k, roleValidated(service[k], roleValidateBeforeUpdate(service[k].role),
                                        "roleDao.updateMethod"))
        /\ UNCHANGED <<roleDao, permissionBitDao, rolePermissionBitDao, accountRoleDao,
                       nextRoleId, nextAccountRoleId, serviceCalls>>
        /\ UNCHANGED <<daoVars, validatorVars, authContextDao>>

\* the query of validateParentRole resolves
ParentRoleValidated ==
    \E k \in 1..MaxRoleCalls :
        /\ service[k].pc = "roleDao.validateParentRole"
        /\ LET c == service[k]
               errors == validateParentRole(c.role)
           IN  ServiceStep(k, IF Len(errors) > 0
                                 THEN settle(c, RejectErrors(errors))
                                 ELSE [c EXCEPT !.pc = IF c.op = "insert"
                                                          THEN "roleDao.insertMethod"
                                                          ELSE "roleDao.updateMethod"])
        /\ UNCHANGED <<roleDao, permissionBitDao, rolePermissionBitDao, accountRoleDao,
                       nextRoleId, nextAccountRoleId, serviceCalls>>
        /\ UNCHANGED <<daoVars, validatorVars, authContextDao>>

\* roleDao's insertMethod stores the role; `result` is the inserted role and
\* the callback calls rolePermissionBitDao.insertMany
RoleInserted ==
    \E k \in 1..MaxRoleCalls :
        /\ service[k].pc = "roleDao.insertMethod"
        /\ LET insertedRole == [service[k].role EXCEPT !.id = RoleId(nextRoleId)]
           IN  /\ roleDao' = Append(roleDao, insertedRole)
               /\ ServiceStep(k, [service[k] EXCEPT !.result = insertedRole,
                                                    !.pc = "insertMany"])
        /\ nextRoleId' = nextRoleId + 1
        /\ UNCHANGED <<permissionBitDao, rolePermissionBitDao, accountRoleDao,
                       nextAccountRoleId, serviceCalls>>
        /\ UNCHANGED <<daoVars, validatorVars, authContextDao>>

\* roleDao's updateMethod replaces the role; `result` is the updated role and
\* the callback calls rolePermissionBitDao.deleteAllByIdRole(object.id)
RoleUpdated ==
    \E k \in 1..MaxRoleCalls :
        /\ service[k].pc = "roleDao.updateMethod"
        /\ LET role == service[k].role
           IN  /\ roleDao' = [i \in 1..Len(roleDao) |->
                                IF roleDao[i].id = role.id THEN role ELSE roleDao[i]]
               /\ ServiceStep(k, [service[k] EXCEPT !.result = role,
                                                    !.pc = "deleteAllByIdRole"])
        /\ UNCHANGED <<permissionBitDao, rolePermissionBitDao, accountRoleDao, nextRoleId,
                       nextAccountRoleId, serviceCalls>>
        /\ UNCHANGED <<daoVars, validatorVars, authContextDao>>

\* an update that goes straight on to insertMany
roleAssociationsDeleted_keepsThem(idRole) == rolePermissionBitDao

\* update's second callback: the role's associations are deleted
roleAssociationsDeleted(idRole) == deleteAllByIdRole(rolePermissionBitDao, idRole)

RoleAssociationsDeleted ==
    \E k \in 1..MaxRoleCalls :
        /\ service[k].pc = "deleteAllByIdRole"
        /\ LET after == roleAssociationsDeleted(service[k].object.id)
           IN  /\ rolePermissionBitDao' = after
               /\ ServiceStep(k, [wrote(service[k], rolePermissionBitDao, after)
                                     EXCEPT !.pc = "insertMany"])
        /\ UNCHANGED <<roleDao, permissionBitDao, accountRoleDao, nextRoleId,
                       nextAccountRoleId, serviceCalls>>
        /\ UNCHANGED <<daoVars, validatorVars, authContextDao>>

\* an association per permission bit handed over, repeated or not
insertAssociations_perInputBit(insertedRole, o) ==
    LET idsPermissionBits == idsOf(o.permissionBits)
    IN  [i \in 1..Len(idsPermissionBits) |->
            RolePermissionBitEntity(insertedRole.id, idsPermissionBits[i])]

\* insert's second callback: associationsToInsert
insertAssociations(insertedRole, o) ==
    LET idsPermissionBits == uniq(idsOf(o.permissionBits))
    IN  [i \in 1..Len(idsPermissionBits) |->
            RolePermissionBitEntity(insertedRole.id, idsPermissionBits[i])]

\* update's third callback: associationsToInsert
updateAssociations(updatedRole, o) ==
    LET idsPermissionBits == uniq(idsOf(o.permissionBits))
    IN  [i \in 1..Len(idsPermissionBits) |->
            RolePermissionBitEntity(updatedRole.id, idsPermissionBits[i])]

\* rolePermissionBitDao.insertMany(associationsToInsert) settles
RoleAssociated ==
    \E k \in 1..MaxRoleCalls :
        /\ service[k].pc = "insertMany"
        /\ LET c == service[k]
               associationsToInsert ==
                   IF c.op = "insert" THEN insertAssociations(c.result, c.object)
                                      ELSE updateAssociations(c.result, c.object)
               stored == storeAssociations(rolePermissionBitDao, associationsToInsert)
           IN  IF \E i \in 1..Len(associationsToInsert) :
                     \/ isBlankString(associationsToInsert[i].idRole)
                     \/ isBlankString(associationsToInsert[i].idPermissionBit)
                  THEN /\ ServiceStep(k, settle(c, RejectErrors(
                              <<ValidationError("idRole", "Empty id", EmptyString)>>)))
                       /\ UNCHANGED rolePermissionBitDao
                  ELSE /\ rolePermissionBitDao' = stored
                       /\ ServiceStep(k, [wrote(c, rolePermissionBitDao, stored) EXCEPT
                              !.insertedBits = storedAssociations(associationsToInsert),
                              !.pc = "populateData"])
        /\ UNCHANGED <<roleDao, permissionBitDao, accountRoleDao, nextRoleId,
                       nextAccountRoleId, serviceCalls>>
        /\ UNCHANGED <<daoVars, validatorVars, authContextDao>>

\* populateData: permissionBitDao.findAllByIds resolves; its callback calls
\* authContextDao.findAllByIds
PermissionBitsFound ==
    \E k \in 1..MaxRoleCalls :
        /\ service[k].pc = "populateData"
        /\ LET c == service[k]
               permissionBitIds ==
                   [i \in 1..Len(c.insertedBits) |-> c.insertedBits[i].idPermissionBit]
               resultPermissionBit == findAllByIds(permissionBitDao, permissionBitIds)
           IN  ServiceStep(k, [c EXCEPT !.permissionBits = resultPermissionBit,
                                        !.pc = "populateData.authContext"])
        /\ UNCHANGED <<roleDao, permissionBitDao, rolePermissionBitDao, accountRoleDao,
                       nextRoleId, nextAccountRoleId, serviceCalls>>
        /\ UNCHANGED <<daoVars, validatorVars, authContextDao>>

\* populateData: authContextDao.findAllByIds resolves; every bit gets its
\* authContext and the service resolves with the role and its bits
RolePopulated ==
    \E k \in 1..MaxRoleCalls :
        /\ service[k].pc = "populateData.authContext"
        /\ LET c == service[k]
               authContextIds ==
                   uniq([i \in 1..Len(c.permissionBits) |-> c.permissionBits[i].idAuthContext])
               resultAuthContexts == findAllByIds(authContextDao, authContextIds)
               resultData == withAuthContext(c.permissionBits, resultAuthContexts)
               populated == [c.result EXCEPT !.permissionBits = resultData]
           IN  ServiceStep(k, settle([c EXCEPT !.result = populated], Resolve(populated)))
        /\ UNCHANGED <<roleDao, permissionBitDao, rolePermissionBitDao, accountRoleDao,
                       nextRoleId, nextAccountRoleId, serviceCalls>>
        /\ UNCHANGED <<daoVars, validatorVars, authContextDao>>

\* remove's first callback: the accounts that have the role
AccountRolesFound ==
    \E k \in 1..MaxRoleCalls :
        /\ service[k].pc = "findAllByRoleId"
        /\ LET c == service[k]
               accountRoles == findAllByRoleId(accountRoleDao, c.object.id)
           IN  ServiceStep(k,
                   IF Len(accountRoles) > 0 /\ c.force = FALSE
                      THEN settle(c, RejectErrors(
                               <<ValidationError(ACCOUNT, ROLE_ASSOCIATED_WITH_ACCOUNT,
                                                 EmptyString)>>))
                      ELSE [c EXCEPT !.accountRoles = accountRoles,
                                     !.pc = "deleteAllByIds"])
        /\ UNCHANGED <<roleDao, permissionBitDao, rolePermissionBitDao, accountRoleDao,
                       nextRoleId, nextAccountRoleId, serviceCalls>>
        /\ UNCHANGED <<daoVars, validatorVars, authContextDao>>

\* accountRoleDao.deleteAllByIds(ids) resolves; the next callback calls
\* rolePermissionBitDao.deleteAllByIdRole(role.id)
AccountRolesDeleted ==
    \E k \in 1..MaxRoleCalls :
        /\ service[k].pc = "deleteAllByIds"
        /\ LET ids == [i \in 1..Len(service[k].accountRoles) |-> service[k].accountRoles[i].id]
           IN  accountRoleDao' = deleteAllByIds(accountRoleDao, ids)
        /\ ServiceStep(k, [service[k] EXCEPT !.pc = "remove.deleteAllByIdRole"])
        /\ UNCHANGED <<roleDao, permissionBitDao, rolePermissionBitDao, nextRoleId,
                       nextAccountRoleId, serviceCalls>>
        /\ UNCHANGED <<daoVars, validatorVars, authContextDao>>

\* the role's associations are deleted; the next callback calls roleDao.removeById
RoleAssociationsRemoved ==
    \E k \in 1..MaxRoleCalls :
        /\ service[k].pc = "remove.deleteAllByIdRole"
        /\ LET after == deleteAllByIdRole(rolePermissionBitDao, service[k].object.id)
           IN  /\ rolePermissionBitDao' = after
               /\ ServiceStep(k, [wrote(service[k], rolePermissionBitDao, after)
                                     EXCEPT !.pc = "removeById"])
        /\ UNCHANGED <<roleDao, permissionBitDao, accountRoleDao, nextRoleId,
                       nextAccountRoleId, serviceCalls>>
        /\ UNCHANGED <<daoVars, validatorVars, authContextDao>>

\* roleDao.removeById(role.id) resolves, and with it the service
RoleRemoved ==
    \E k \in 1..MaxRoleCalls :
        /\ service[k].pc = "removeById"
        /\ roleDao' = removeById(roleDao, service[k].object.id)
        /\ ServiceStep(k, settle(service[k], Resolve(<<>>)))
        /\ UNCHANGED <<permissionBitDao, rolePermissionBitDao, accountRoleDao, nextRoleId,
                       nextAccountRoleId, serviceCalls>>
        /\ UNCHANGED <<daoVars, validatorVars, authContextDao>>

(***************************************************************************)
(* The initial state: a dao over an empty collection.                      *)
(***************************************************************************)
Init ==
    /\ dao \in Daos
    /\ store = <<>>
    /\ nextId = 1
    /\ calls = 0
    /\ call = [k \in 1..MaxCalls |-> Idle]
    /\ roleDao = <<>>
    /\ permissionBitDao = <<>>
    /\ authContextDao = <<>>
    /\ rolePermissionBitDao = EmptyBag
    /\ accountRoleDao = <<>>
    /\ nextRoleId = 1
    /\ nextAccountRoleId = 1
    /\ serviceCalls = 0
    /\ service = [k \in 1..MaxRoleCalls |-> ServiceIdle]
    /\ validatorInput = NoPermissionBit
    /\ validatorErrors = <<>>

Next ==
    \/ Insert
    \/ InsertValidated
    \/ InsertPersisted
    \/ InsertMany
    \/ InsertManyPersisted
    \/ Update
    \/ UpdateValidated
    \/ UpdatePersisted
    \/ SaveOrUpdate
    \/ FindOne
    \/ FindOneResolved
    \/ Remove
    \/ Removed
    \/ RemoveById
    \/ RemovedById
    \/ DeleteAll
    \/ DeletedAll
    \/ DeleteAllByIds
    \/ DeletedAllByIds
    \/ Settled

Spec == Init /\ [][Next]_vars

\* a caller that only inserts, and starts a call when the one before has settled
InsertInTurn ==
    /\ \A k \in 1..MaxCalls : ~InFlight(call[k])
    /\ Insert

NextInsert ==
    \/ InsertInTurn
    \/ InsertValidated
    \/ InsertPersisted
    \/ Settled

SpecInsert == Init /\ [][NextInsert]_vars

\* the callers of RoleService and of the daos it reads
NextRole ==
    \/ PermissionBitInserted
    \/ AuthContextInserted
    \/ AccountRoleInserted
    \/ RoleServiceInsert
    \/ RoleServiceUpdate
    \/ RoleServiceRemove
    \/ PermissionBitsValidated
    \/ RoleValidatedBeforeInsert
    \/ RoleValidatedBeforeUpdate
    \/ ParentRoleValidated
    \/ RoleInserted
    \/ RoleUpdated
    \/ RoleAssociationsDeleted
    \/ RoleAssociated
    \/ PermissionBitsFound
    \/ RolePopulated
    \/ AccountRolesFound
    \/ AccountRolesDeleted
    \/ RoleAssociationsRemoved
    \/ RoleRemoved

\* BootStrapMongoDbDaos.initMongoDbDaos: the daos of Persistence over empty
\* collections; the state-province dao is constructed with null
InitRole ==
    /\ Init
    /\ dao = [legacy |-> TRUE, entityProperties |-> NoProps, converts |-> FALSE]

SpecRole == InitRole /\ [][NextRole]_vars

\* a caller of PermissionBitValidator
ValidatePermissionBit ==
    \E bit \in InputPermissionBitEntities :
        /\ validatorInput' = bit
        /\ validatorErrors' = validatePermissionBit(bit)
        /\ UNCHANGED <<daoVars, roleVars>>

NextValidator == ValidatePermissionBit

SpecValidator == InitRole /\ [][NextValidator]_vars

(***************************************************************************)
(* Reading a call.                                                         *)
(***************************************************************************)
Calls == 1..MaxCalls
Count(c, e) == Cardinality({i \in 1..Len(c.trace) : c.trace[i] = e})
Has(c, e) == Count(c, e) > 0
Pos(c, e) == CHOOSE i \in 1..Len(c.trace) : c.trace[i] = e
Before(c, e, f) == Has(c, e) /\ Has(c, f) /\ Pos(c, e) < Pos(c, f)
LastTwo(c, e, f) ==
    Len(c.trace) >= 2 /\ c.trace[Len(c.trace) - 1] = e /\ c.trace[Len(c.trace)] = f
IdGeneration == IF dao.legacy THEN "assignUuid" ELSE "assignUUIDToIdAttribute"
Inserting(c) == c.via = "insert"
Updating(c) == c.via = "update"
\* the record the call's insertMethod stored
LastStored(c) == c.store1[Len(c.store1)]
Resolved(c) == c.pc = "done" /\ c.outcome.kind = "resolved"

(***************************************************************************)
(* C1: insert calls insertMethod at most once, and only after the id       *)
(* precondition passed, validateEntity returned no error and               *)
(* validateBeforeInsert resolved with no error, in this order; the id and  *)
(* the time stamp are generated after validateBeforeInsert and before      *)
(* insertMethod; insert resolves with the adapter's result passed through  *)
(* convertAfterDbOperation.                                                *)
(***************************************************************************)
InsertLifecycle(c) ==
    Inserting(c) =>
        /\ Count(c, "insertMethod") <= 1
        /\ Has(c, "insertMethod") =>
              /\ ~(~dao.legacy /\ dao.entityProperties.defined
                     /\ dao.entityProperties.autoGenerated = "true"
                     /\ c.args[1].id \notin {Null, Undef})
              /\ ~(~dao.legacy /\ c.args[1].id \in {Null, Undef}
                     /\ (~dao.entityProperties.defined
                         \/ dao.entityProperties.autoGenerated \in {"null", "undefined", "false"}))
              /\ ~(dao.legacy /\ c.args[1].id \notin {Null, Undef})
              /\ Len(validateEntity(c.args[1])) = 0
              /\ Len(validateBeforeInsert(c.read, c.args[1])) = 0
              /\ Count(c, "validateEntity") = 1
              /\ Count(c, "validateBeforeInsert") = 1
              /\ Before(c, "validateEntity", "validateBeforeInsert")
              /\ Before(c, "validateBeforeInsert", IdGeneration)
              /\ Before(c, "validateBeforeInsert", "generateTimeStampForInsert")
              /\ Before(c, IdGeneration, "insertMethod")
              /\ Before(c, "generateTimeStampForInsert", "insertMethod")
        /\ c.outcome.kind = "resolved" =>
              /\ LastTwo(c, "insertMethod", "convertAfterDbOperation")
              /\ c.store1 = Append(c.store0, LastStored(c))
              /\ c.outcome.value = <<addExtraValues(dao,
                                       convertAfterDbOperation(dao, LastStored(c)),
                                       LastStored(c))>>

\* C1, of every call
C1_InsertLifecycle == \A k \in Calls : InsertLifecycle(call[k])

C1_Witness ==
    \E k \in Calls :
        /\ call[k].op = "insert" /\ Resolved(call[k])
        /\ ~dao.legacy /\ dao.converts
        /\ generatesId(dao.entityProperties) /\ stamps(dao.entityProperties)

(***************************************************************************)
(* C2: errors of validateEntity reject insert with exactly that list, and  *)
(* neither validateBeforeInsert nor insertMethod is called; errors of      *)
(* validateBeforeInsert reject insert with exactly that list, and          *)
(* insertMethod is not called.  In both cases no step of the call changes  *)
(* the collection.                                                         *)
(***************************************************************************)
InsertRejections(c) ==
    (Inserting(c) /\ Has(c, "validateEntity")) =>
        /\ Len(validateEntity(c.args[1])) > 0 =>
              /\ c.pc = "done"
              /\ c.outcome = RejectErrors(validateEntity(c.args[1]))
              /\ ~Has(c, "validateBeforeInsert")
              /\ ~Has(c, "insertMethod")
              /\ ~c.changed
        /\ (Has(c, "validateBeforeInsert") /\ c.pc # "validateBeforeInsert"
              /\ Len(validateBeforeInsert(c.read, c.args[1])) > 0) =>
              /\ c.pc = "done"
              /\ c.outcome = RejectErrors(validateBeforeInsert(c.read, c.args[1]))
              /\ ~Has(c, "insertMethod")
              /\ ~c.changed

\* C2, of every call
C2_InsertRejections == \A k \in Calls : InsertRejections(call[k])

C2_Witness ==
    \E k \in Calls :
        /\ Inserting(call[k]) /\ call[k].pc = "done"
        /\ Has(call[k], "validateBeforeInsert")
        /\ call[k].outcome.kind = "rejected"
        /\ Len(call[k].outcome.errors) = 1
        /\ call[k].outcome.errors[1].attribute = "code"
        /\ Len(call[k].read) > 0
        /\ store = call[k].read

(***************************************************************************)
(* C3: the id precondition of insert (current dao).  With autoGenerated    *)
(* true an object that has an id is rejected with 'Object has a defined    *)
(* id'; with entityProperties null, or autoGenerated null, undefined or    *)
(* false, an object without an id is rejected.  Neither validation nor     *)
(* insertMethod is called, and the call does not change the collection.    *)
(***************************************************************************)
NothingCalledByInsert(c) ==
    /\ ~Has(c, "validateEntity")
    /\ ~Has(c, "validateBeforeInsert")
    /\ ~Has(c, "insertMethod")
    /\ ~c.changed

InsertIdPrecondition(c) ==
    (Inserting(c) /\ ~dao.legacy) =>
        /\ (dao.entityProperties.defined
              /\ dao.entityProperties.autoGenerated = "true"
              /\ c.args[1].id \notin {Null, Undef}) =>
              /\ c.pc = "done"
              /\ c.outcome = RejectMessage("Object has a defined id")
              /\ NothingCalledByInsert(c)
        /\ ((~dao.entityProperties.defined
               \/ dao.entityProperties.autoGenerated \in {"null", "undefined", "false"})
              /\ c.args[1].id \in {Null, Undef}) =>
              /\ c.pc = "done"
              /\ c.outcome.kind = "rejected"
              /\ c.outcome.message # ""
              /\ c.outcome.errors = <<>>
              /\ NothingCalledByInsert(c)

\* C3, of every call
C3_InsertIdPrecondition == \A k \in Calls : InsertIdPrecondition(call[k])

C3_Witness ==
    \E k \in Calls :
        /\ call[k].op = "insert" /\ ~dao.legacy /\ call[k].pc = "done"
        /\ dao.entityProperties.defined
        /\ dao.entityProperties.autoGenerated = "undefined"
        /\ call[k].args[1].id = Undef
        /\ Len(validateEntity(call[k].args[1])) > 0
        /\ call[k].outcome.kind = "rejected"

(***************************************************************************)
(* C4: with autoGenerated true, the object insert hands to insertMethod    *)
(* has a non-null id the dao generated before the call, and the object     *)
(* insert resolves with carries the id of the stored record.               *)
(***************************************************************************)
GeneratedId(c) ==
    (Inserting(c) /\ ~dao.legacy /\ dao.entityProperties.defined
       /\ dao.entityProperties.autoGenerated = "true" /\ Has(c, "insertMethod")) =>
        /\ Len(c.handed) = 1
        /\ c.handed[1].id \notin {Null, Undef}
        /\ c.handed[1].id # c.args[1].id
        /\ \E n \in 1..(nextId - 1) : c.handed[1].id = Id(n)
        /\ \A i \in 1..Len(c.read) : c.read[i].id # c.handed[1].id
        /\ c.objs[1].id = c.handed[1].id
        /\ Before(c, "assignUUIDToIdAttribute", "insertMethod")
        /\ c.outcome.kind = "resolved" =>
              /\ \A i \in 1..Len(c.store0) : c.store0[i].id # c.handed[1].id
              /\ c.store1 = Append(c.store0, LastStored(c))
              /\ LastStored(c).id = c.handed[1].id
              /\ c.outcome.value[1].id = LastStored(c).id

\* C4, of every call
C4_GeneratedId == \A k \in Calls : GeneratedId(call[k])

C4_Witness ==
    \E k \in Calls :
        /\ Inserting(call[k]) /\ Resolved(call[k])
        /\ ~dao.legacy /\ dao.converts
        /\ dao.entityProperties.defined /\ dao.entityProperties.autoGenerated = "true"
        /\ Len(call[k].store0) > 0
        /\ call[k].outcome.value[1].id = Id(nextId - 1)

(***************************************************************************)
(* C5: with timeStamp true, the dao assigns the creation time stamp on     *)
(* every successful insert and the last-update time stamp on every         *)
(* successful update, after both validations passed and before the adapter *)
(* is called; a call a validation rejects assigns no time stamp.           *)
(***************************************************************************)
\* a time stamp taken while the k-th call was in flight
StampOf(k, v) == \E t \in k..calls : v = Stamp(t)

TimeStamps(k, c) ==
    (dao.entityProperties.defined /\ dao.entityProperties.timeStamp = "true") =>
        /\ (Inserting(c) /\ Has(c, "insertMethod")) =>
              /\ StampOf(k, c.objs[1].dateCreated)
              /\ c.handed[1].dateCreated = c.objs[1].dateCreated
              /\ Before(c, "validateEntity", "generateTimeStampForInsert")
              /\ Before(c, "validateBeforeInsert", "generateTimeStampForInsert")
              /\ Before(c, "generateTimeStampForInsert", "insertMethod")
        /\ (Inserting(c) /\ c.outcome.kind = "resolved") =>
              /\ Has(c, "insertMethod")
              /\ LastStored(c).dateCreated = c.objs[1].dateCreated
              /\ c.outcome.value[1].dateCreated = c.objs[1].dateCreated
        /\ (Updating(c) /\ Has(c, "updateMethod")) =>
              /\ StampOf(k, c.objs[1].lastUpdate)
              /\ c.handed[1].lastUpdate = c.objs[1].lastUpdate
              /\ Before(c, "validateEntity", "generateTimeStampForUpdate")
              /\ Before(c, "validateBeforeUpdate", "generateTimeStampForUpdate")
              /\ Before(c, "generateTimeStampForUpdate", "updateMethod")
        /\ (Updating(c) /\ c.outcome.kind = "resolved") =>
              /\ Has(c, "updateMethod")
              /\ c.outcome.value[1].lastUpdate = c.objs[1].lastUpdate
              /\ \A i \in 1..Len(c.store1) :
                    c.store1[i].id = c.args[1].id =>
                        c.store1[i].lastUpdate = c.objs[1].lastUpdate
        /\ ((Inserting(c) \/ Updating(c))
              /\ (c.outcome.kind = "rejected"
                  \/ c.pc \in {"validateBeforeInsert", "validateBeforeUpdate"})) =>
              /\ c.objs = c.args
              /\ ~Has(c, "generateTimeStampForInsert")
              /\ ~Has(c, "generateTimeStampForUpdate")

\* C5, of every call
C5_TimeStamps == \A k \in Calls : TimeStamps(k, call[k])

C5_Witness ==
    \E k \in Calls :
        /\ Updating(call[k]) /\ Resolved(call[k])
        /\ dao.entityProperties.defined /\ dao.entityProperties.timeStamp = "true"
        /\ dao.converts
        /\ \E i \in 1..Len(call[k].store1) :
              /\ call[k].store1[i].id = call[k].args[1].id
              /\ call[k].store1[i].dateCreated # NoStamp
              /\ call[k].store1[i].lastUpdate = Stamp(k)

(***************************************************************************)
(* C6: update of an object whose id is null, undefined or a blank string   *)
(* rejects with 'Object does not have an id'; validateEntity,              *)
(* validateBeforeUpdate and updateMethod are not called and the call does  *)
(* not change the collection.                                              *)
(***************************************************************************)
UpdateBlankId(c) ==
    (c.op = "update" /\ c.args[1].id \in {Null, Undef, Blank}) =>
        /\ c.pc = "done"
        /\ c.outcome = RejectMessage("Object does not have an id")
        /\ c.trace = <<>>
        /\ ~c.changed

\* C6, of every call
C6_UpdateBlankId == \A k \in Calls : UpdateBlankId(call[k])

C6_Witness ==
    \E k \in Calls :
        /\ call[k].op = "update" /\ call[k].pc = "done"
        /\ call[k].args[1].id = Blank
        /\ Len(validateEntity(call[k].args[1])) = 0
        /\ Len(store) > 0
        /\ call[k].outcome.kind = "rejected"

(***************************************************************************)
(* C7: update calls updateMethod at most once, and only after              *)
(* validateEntity returned no error and then validateBeforeUpdate resolved *)
(* with no error; errors of either reject update with exactly those errors *)
(* and the call leaves the stored record unchanged.                        *)
(***************************************************************************)
UpdateLifecycle(c) ==
    Updating(c) =>
        /\ Count(c, "updateMethod") <= 1
        /\ Has(c, "updateMethod") =>
              /\ Len(validateEntity(c.args[1])) = 0
              /\ Len(validateBeforeUpdate(c.read, c.args[1])) = 0
              /\ Count(c, "validateEntity") = 1
              /\ Count(c, "validateBeforeUpdate") = 1
              /\ Before(c, "validateEntity", "validateBeforeUpdate")
              /\ Before(c, "validateBeforeUpdate", "updateMethod")
        /\ (Has(c, "validateEntity") /\ Len(validateEntity(c.args[1])) > 0) =>
              /\ c.pc = "done"
              /\ c.outcome = RejectErrors(validateEntity(c.args[1]))
              /\ ~Has(c, "validateBeforeUpdate")
              /\ ~Has(c, "updateMethod")
              /\ ~c.changed
        /\ (Has(c, "validateBeforeUpdate") /\ c.pc # "validateBeforeUpdate"
              /\ Len(validateBeforeUpdate(c.read, c.args[1])) > 0) =>
              /\ c.pc = "done"
              /\ c.outcome = RejectErrors(validateBeforeUpdate(c.read, c.args[1]))
              /\ ~Has(c, "updateMethod")
              /\ ~c.changed

\* C7, of every call
C7_UpdateLifecycle == \A k \in Calls : UpdateLifecycle(call[k])

C7_Witness ==
    \E k \in Calls :
        /\ Updating(call[k]) /\ call[k].pc = "done"
        /\ Has(call[k], "validateBeforeUpdate")
        /\ call[k].outcome.kind = "rejected"
        /\ Len(call[k].outcome.errors) = 1
        /\ \E i \in 1..Len(call[k].read) : call[k].read[i].id = call[k].args[1].id

(***************************************************************************)
(* C8: saveOrUpdate runs exactly one of insert and update, insert when the *)
(* id is blank (null, undefined or a blank string) and update otherwise,   *)
(* and settles with that operation's outcome.                              *)
(***************************************************************************)
InsertEvents ==
    {"validateBeforeInsert", "assignUUIDToIdAttribute", "assignUuid",
     "generateTimeStampForInsert", "insertMethod"}
UpdateEvents == {"validateBeforeUpdate", "generateTimeStampForUpdate", "updateMethod"}
Events(c) == {c.trace[i] : i \in 1..Len(c.trace)}

SaveOrUpdateDispatch(c) ==
    c.op = "saveOrUpdate" =>
        /\ c.via \in {"insert", "update"}
        /\ c.via = "insert" <=> c.args[1].id \in {Null, Undef, Blank}
        /\ c.trace[1] = c.via
        /\ Count(c, "insert") + Count(c, "update") = 1
        /\ c.via = "insert" => Events(c) \cap UpdateEvents = {}
        /\ c.via = "update" => Events(c) \cap InsertEvents = {}
        /\ (c.pc = "done" /\ c.via = "insert") =>
              \/ /\ c.outcome = RejectMessage(insertPrecondition(dao, c.args[1]))
                 /\ c.outcome.message # ""
                 /\ c.trace = <<"insert">>
              \/ /\ c.outcome = RejectErrors(validateEntity(c.args[1]))
                 /\ c.outcome.errors # <<>>
                 /\ insertPrecondition(dao, c.args[1]) = ""
              \/ /\ c.outcome = RejectErrors(validateBeforeInsert(c.read, c.args[1]))
                 /\ c.outcome.errors # <<>>
                 /\ insertPrecondition(dao, c.args[1]) = ""
                 /\ validateEntity(c.args[1]) = <<>>
              \/ /\ c.outcome.kind = "resolved"
                 /\ LastTwo(c, "insertMethod", "convertAfterDbOperation")
                 /\ c.store1 = Append(c.store0, LastStored(c))
                 /\ c.outcome.value[1].id = LastStored(c).id
                 /\ c.outcome.value[1].code = c.args[1].code
                 /\ c.outcome.value[1].countryIsoCode = c.args[1].countryIsoCode
        /\ (c.pc = "done" /\ c.via = "update") =>
              \/ /\ c.outcome = RejectErrors(validateEntity(c.args[1]))
                 /\ c.outcome.errors # <<>>
              \/ /\ c.outcome = RejectErrors(validateBeforeUpdate(c.read, c.args[1]))
                 /\ c.outcome.errors # <<>>
                 /\ validateEntity(c.args[1]) = <<>>
              \/ /\ c.outcome.kind = "resolved"
                 /\ LastTwo(c, "updateMethod", "convertAfterDbOperation")
                 /\ Len(c.store1) = Len(c.store0)
                 /\ c.outcome.value[1].id = c.args[1].id
                 /\ c.outcome.value[1].code = c.args[1].code
                 /\ c.outcome.value[1].countryIsoCode = c.args[1].countryIsoCode

\* C8, of every call
C8_SaveOrUpdate == \A k \in Calls : SaveOrUpdateDispatch(call[k])

C8_Witness ==
    \E k \in Calls :
        /\ call[k].op = "saveOrUpdate" /\ call[k].pc = "done" /\ call[k].via = "insert"
        /\ call[k].args[1].id = Blank
        /\ call[k].outcome.kind = "resolved"
        /\ Len(call[k].store0) > 0

(***************************************************************************)
(* C9: findOne resolves with the document whose id is the given id, and    *)
(* with null when no stored record has that id, in which case              *)
(* convertAfterDbOperation is not called.  The query does not change the   *)
(* collection.                                                             *)
(***************************************************************************)
FindOneResult(c) ==
    c.op = "findOne" =>
        /\ ~c.changed
        /\ c.pc = "done" =>
              /\ c.outcome.kind = "resolved"
              /\ (\A i \in 1..Len(c.read) : c.read[i].id # c.args[1]) =>
                    /\ c.outcome.value = <<>>
                    /\ ~Has(c, "convertAfterDbOperation")
              /\ (\E i \in 1..Len(c.read) : c.read[i].id = c.args[1]) =>
                    /\ Len(c.outcome.value) = 1
                    /\ c.outcome.value[1].id = c.args[1]
                    /\ \E i \in 1..Len(c.read) : c.outcome.value[1] = c.read[i]
                    /\ Count(c, "convertAfterDbOperation") = 1

\* C9, of every call
C9_FindOne == \A k \in Calls : FindOneResult(call[k])

C9_Witness ==
    \E k \in Calls :
        /\ call[k].op = "findOne" /\ call[k].pc = "done"
        /\ dao.converts
        /\ Len(call[k].outcome.value) = 1
        /\ call[k].outcome.value[1].id = call[k].args[1]
        /\ call[k].outcome.value[1].dateCreated # NoStamp
        /\ store = call[k].read

(***************************************************************************)
(* C10: insertMany persists all or nothing.  If an object of the list has  *)
(* an id ('Object has a defined id') or fails validateEntity (rejection    *)
(* with that object's errors), insertManyMethod is never called and no     *)
(* object is stored; insertManyMethod is called exactly once, with one     *)
(* converted entry per input object in input order, only when every object *)
(* passed.                                                                 *)
(***************************************************************************)
SameDocument(a, b) == a.countryIsoCode = b.countryIsoCode /\ a.code = b.code

InsertManyAllOrNothing(c) ==
    c.op = "insertMany" =>
        /\ Count(c, "insertManyMethod") <= 1
        /\ (\E i \in 1..Len(c.args) : c.args[i].id \notin {Null, Undef}) =>
              /\ c.pc = "done"
              /\ c.outcome = RejectMessage("Object has a defined id")
              /\ ~Has(c, "insertManyMethod")
              /\ ~c.changed
        /\ ((\A i \in 1..Len(c.args) : c.args[i].id \in {Null, Undef})
              /\ \E i \in 1..Len(c.args) : Len(validateEntity(c.args[i])) > 0) =>
              /\ c.pc = "done"
              /\ c.outcome.kind = "rejected"
              /\ \E i \in 1..Len(c.args) :
                    /\ c.outcome.errors = validateEntity(c.args[i])
                    /\ c.outcome.errors # <<>>
                    /\ \A j \in 1..(i - 1) : validateEntity(c.args[j]) = <<>>
              /\ ~Has(c, "insertManyMethod")
              /\ ~c.changed
        /\ Has(c, "insertManyMethod") =>
              /\ \A i \in 1..Len(c.args) :
                    c.args[i].id \in {Null, Undef} /\ validateEntity(c.args[i]) = <<>>
              /\ Len(c.handed) = Len(c.args)
              /\ \A i \in 1..Len(c.args) : SameDocument(c.handed[i], c.args[i])
              /\ Count(c, "validateEntity") = Len(c.args)
              /\ Count(c, "convertBeforeSave") = Len(c.args)
        /\ (Has(c, "insertManyMethod") /\ c.pc = "done") =>
              /\ c.outcome.kind = "resolved"
              /\ Len(c.store1) = Len(c.store0) + Len(c.args)
              /\ \A i \in 1..Len(c.store0) : c.store1[i] = c.store0[i]
              /\ \A i \in 1..Len(c.args) :
                    SameDocument(c.store1[Len(c.store0) + i], c.args[i])
        /\ (c.pc = "done" /\ ~Has(c, "insertManyMethod")) => ~c.changed

\* C10, of every call
C10_InsertMany == \A k \in Calls : InsertManyAllOrNothing(call[k])

C10_Witness ==
    \E k \in Calls :
        /\ call[k].op = "insertMany" /\ call[k].pc = "done"
        /\ Len(call[k].args) = MaxList
        /\ call[k].args[1] # call[k].args[MaxList]
        /\ call[k].outcome.kind = "resolved"
        /\ Len(call[k].store0) > 0

(***************************************************************************)
(* C11: insertMany does not check data consistency.  It never calls        *)
(* validateBeforeInsert, so a list with a record that duplicates a stored  *)
(* record, or another record of the list, on the key insert would reject   *)
(* is persisted.                                                           *)
(***************************************************************************)
DuplicatesStored(coll, o) == \E i \in 1..Len(coll) : SameDocument(coll[i], o)
DuplicatesInList(os) ==
    \E i, j \in 1..Len(os) : i # j /\ SameDocument(os[i], os[j])
Accepted(os) ==
    \A i \in 1..Len(os) : os[i].id \in {Null, Undef} /\ validateEntity(os[i]) = <<>>

InsertManyUnchecked(c) ==
    c.op = "insertMany" =>
        /\ ~Has(c, "validateBeforeInsert")
        /\ Accepted(c.args) => Has(c, "insertManyMethod")
        /\ (c.pc = "done" /\ Accepted(c.args)
              /\ (DuplicatesInList(c.args)
                  \/ \E i \in 1..Len(c.args) : DuplicatesStored(c.store0, c.args[i]))) =>
              /\ c.outcome.kind = "resolved"
              /\ Len(c.outcome.value) = Len(c.args)
              /\ Len(c.store1) = Len(c.store0) + Len(c.args)
              /\ \A i \in 1..Len(c.args) :
                    SameDocument(c.store1[Len(c.store0) + i], c.args[i])
              /\ \E i, j \in 1..Len(c.store1) :
                    i # j /\ SameDocument(c.store1[i], c.store1[j])

\* C11, of every call
C11_InsertManyUnchecked == \A k \in Calls : InsertManyUnchecked(call[k])

C11_Witness ==
    \E k \in Calls :
        /\ call[k].op = "insertMany" /\ call[k].pc = "done"
        /\ call[k].outcome.kind = "resolved"
        /\ Len(call[k].args) = 1
        /\ DuplicatesStored(call[k].store0, call[k].args[1])
        /\ Len(validateBeforeInsert(call[k].store0, call[k].args[1])) = 1
        /\ Len(call[k].store1) = Len(call[k].store0) + 1

(***************************************************************************)
(* C12: from an empty collection, after StateProvinceDao.insert calls that *)
(* each complete before the next starts, no two stored state provinces     *)
(* share a (countryIsoCode, code) pair.  An insert whose pair is stored    *)
(* rejects with a single validation error on attribute "code" and stores   *)
(* nothing; the same code under another countryIsoCode is accepted.        *)
(***************************************************************************)
SameCodeStored(coll, o) == \E i \in 1..Len(coll) : coll[i].code = o.code
PassesChecks(o) == insertPrecondition(dao, o) = "" /\ validateEntity(o) = <<>>

UniquePairInsert(c) ==
    (c.op = "insert" /\ c.pc = "done" /\ PassesChecks(c.args[1])) =>
        IF DuplicatesStored(c.read, c.args[1])
           THEN /\ c.outcome.kind = "rejected"
                /\ Len(c.outcome.errors) = 1
                /\ c.outcome.errors[1].attribute = "code"
                /\ ~c.changed
           ELSE /\ c.outcome.kind = "resolved"
                /\ c.store0 = c.read
                /\ c.store1 = Append(c.store0, LastStored(c))
                /\ SameDocument(LastStored(c), c.args[1])

\* C12: the collection, and every call
C12_UniquePair ==
    /\ \A i, j \in 1..Len(store) : i # j => ~SameDocument(store[i], store[j])
    /\ \A k \in Calls : UniquePairInsert(call[k])

C12_Witness ==
    \E k \in Calls :
        /\ call[k].op = "insert" /\ Resolved(call[k])
        /\ SameCodeStored(call[k].read, call[k].args[1])
        /\ ~DuplicatesStored(call[k].read, call[k].args[1])
        /\ Len(store) = 2
        /\ store[1].code = store[2].code
        /\ store[1].countryIsoCode # store[2].countryIsoCode

C12_WitnessRejected ==
    \E k \in Calls :
        /\ call[k].op = "insert" /\ call[k].pc = "done"
        /\ PassesChecks(call[k].args[1])
        /\ DuplicatesStored(call[k].read, call[k].args[1])
        /\ call[k].outcome.kind = "rejected"
        /\ store = call[k].read
        /\ Len(store) = 1


(***************************************************************************)
(* The role and permission-bit daos (C13 to C15).  A call of RoleService   *)
(* records the associations as they were when it started and when its      *)
(* promise settled, the roles whose associations its own writes changed,   *)
(* and whether another call of RoleService was in flight while it was.     *)
(* "Unchanged" is read of the call: no write of the call changed them.     *)
(***************************************************************************)
ServiceCalls == 1..MaxRoleCalls
InputBitIds(c) ==
    {c.object.permissionBits.items[i].id : i \in 1..Len(c.object.permissionBits.items)}
OfRole(coll, idRole) == {e \in BagToSet(coll) : e.idRole = idRole}
ExactlyInputBits(c, idRole) ==
    /\ {e.idPermissionBit : e \in OfRole(c.associations1, idRole)} = InputBitIds(c)
    /\ \A e \in OfRole(c.associations1, idRole) : CopiesIn(e, c.associations1) = 1
OthersUnchanged(c, idRole) == c.touched \subseteq {idRole}
\* with no other call in flight the others are as they were when the call started
OthersAsAtStart(c, idRole) ==
    \A e \in BagToSet(c.associations1) \cup BagToSet(c.associations0) :
        e.idRole # idRole => CopiesIn(e, c.associations1) = CopiesIn(e, c.associations0)
ServiceResolved(c, name) ==
    c.op = name /\ c.pc = "done" /\ c.outcome.kind = "resolved"

(***************************************************************************)
(* C13: when RoleService.insert resolves, the stored associations whose    *)
(* idRole is the new role's id are exactly one per distinct permission-bit *)
(* id of the input permissionBits: a repeated id creates no duplicate, and *)
(* the associations of other roles are unchanged.                          *)
(***************************************************************************)
RoleInsertAssociations(c) ==
    /\ \E n \in 1..(nextRoleId - 1) : c.outcome.value.id = RoleId(n)
    /\ OfRole(c.associations0, c.outcome.value.id) = {}
    /\ ExactlyInputBits(c, c.outcome.value.id)
    /\ OthersUnchanged(c, c.outcome.value.id)

\* C13 as stated, of every insert that resolves: it fails for an insert
\* that another call of RoleService overlaps
C13_AnyInsert ==
    \A k \in ServiceCalls :
        ServiceResolved(service[k], "insert") => RoleInsertAssociations(service[k])

\* C13, of every insert that resolves with no other call of RoleService in
\* flight while it ran: the associations of the new role are exactly one
\* per distinct input bit id, and the associations of other roles are
\* unchanged
C13_RoleInsertAssociations ==
    \A k \in ServiceCalls :
        (ServiceResolved(service[k], "insert") /\ ~service[k].overlapped) =>
            /\ RoleInsertAssociations(service[k])
            /\ OthersAsAtStart(service[k], service[k].outcome.value.id)

C13_Witness ==
    \E k \in ServiceCalls :
        /\ ServiceResolved(service[k], "insert")
        /\ ~service[k].overlapped
        /\ Len(service[k].object.permissionBits.items) > Cardinality(InputBitIds(service[k]))
        /\ OfRole(service[k].associations1, service[k].outcome.value.id) # {}
        /\ BagToSet(service[k].associations0) # {}

(***************************************************************************)
(* C14: when RoleService.update resolves, the associations of that role    *)
(* are exactly the distinct permission-bit ids of the input permissionBits *)
(* (an earlier association of the role that is not in the input is gone,   *)
(* none is duplicated), and the associations of every other role are       *)
(* unchanged.                                                              *)
(***************************************************************************)
RoleUpdateAssociations(c) ==
    /\ c.outcome.value.id = c.object.id
    /\ ExactlyInputBits(c, c.object.id)
    /\ OthersUnchanged(c, c.object.id)

\* C14 as stated, of every update that resolves: it fails for an update
\* that another call of RoleService overlaps
C14_AnyUpdate ==
    \A k \in ServiceCalls :
        ServiceResolved(service[k], "update") => RoleUpdateAssociations(service[k])

\* C14, of every update that resolves with no other call of RoleService in
\* flight while it ran: the associations of the role are exactly the
\* distinct input bit ids, and the associations of other roles are unchanged
C14_RoleUpdateAssociations ==
    \A k \in ServiceCalls :
        (ServiceResolved(service[k], "update") /\ ~service[k].overlapped) =>
            /\ RoleUpdateAssociations(service[k])
            /\ OthersAsAtStart(service[k], service[k].object.id)

C14_Witness ==
    \E k \in ServiceCalls :
        /\ ServiceResolved(service[k], "update")
        /\ ~service[k].overlapped
        /\ \E e \in OfRole(service[k].associations0, service[k].object.id) :
              e.idPermissionBit \notin InputBitIds(service[k])
        /\ \E e \in BagToSet(service[k].associations1) : e.idRole # service[k].object.id
        /\ OfRole(service[k].associations1, service[k].object.id) # {}

(* C15: validatePermissionBit returns an empty list for a permission bit   *)
(* with non-blank name, non-blank description, numeric position and        *)
(* non-blank idAuthContext, and one error per invalid field otherwise: a   *)
(* bit with blank name, blank description, non-numeric position and blank  *)
(* idAuthContext yields exactly 4 errors.                                  *)
(***************************************************************************)
BlankText(v) == v \in {Null, Undef, Blank}
InvalidFields ==
    {f \in {"name", "description", "idAuthContext"} : BlankText(validatorInput[f])}
    \cup (IF validatorInput.position \in {Number(0), Number(1)} THEN {} ELSE {"position"})

C15_PermissionBitValidator ==
    validatorInput # NoPermissionBit =>
        /\ Len(validatorErrors) = Cardinality(InvalidFields)
        /\ {validatorErrors[i].attribute : i \in 1..Len(validatorErrors)} = InvalidFields
        /\ InvalidFields = {} => validatorErrors = <<>>
        /\ InvalidFields = {"name", "description", "position", "idAuthContext"} =>
              Len(validatorErrors) = 4

C15_Witness ==
    /\ validatorInput = PermissionBitEntity(Blank, Blank, <<"2">>, Blank)
    /\ Len(validatorErrors) = 4

C15_WitnessValid ==
    /\ validatorInput = PermissionBitEntity(<<"A name">>, <<"A description">>, Number(0),
                                            <<"1000000">>)
    /\ validatorErrors = <<>>
====
